---- MODULE Spec2Model ----
(***************************************************************************)
(* Model of the RemoteSensingApp background-task core:                     *)
(*   - MainWindow's worker orchestration (src/gui/main_window.py):         *)
(*     run_<family>, _start_worker, _handle_result, cancel_current_worker, *)
(*     _clear_current_worker, with the Qt worker thread and the queued     *)
(*     delivery of its signals to the GUI thread;                          *)
(*   - parameter resolution (Config defaults .copy() + .update(override)); *)
(*   - the evaluation and feature-extraction tasks as staged pipelines     *)
(*     writing to a file system.                                           *)
(***************************************************************************)
EXTENDS Integers, Sequences, FiniteSets, TLC

\* ------------------------------------------------------------------ bounds
MaxWorkers == 2      \* workers dispatched in one behaviour
MaxProgress == 1     \* progress messages emitted in one behaviour
MaxMutations == 1    \* Config mutations the caller performs in one behaviour
MaxListLen == 3      \* longest list a Config default grows to
MaxFeatures == 2     \* entries of the feature-extraction results dict
MaxRows == 2         \* rows of a sample table
MaxCells == 2        \* cells of a class map or an ROI mask
MaxBands == 3        \* band descriptions of a raster
MaxMapCells == 4     \* cells of a class map that sample points are drawn from

\* current_worker = None
NoWorker == 0

Workers == 1..MaxWorkers

\* ------------------------------------------------------- task families
\* The seven families MainWindow dispatches through run_<family>.
Families ==
    {"file_operation", "image_processing", "file_saver", "vector_processing",
     "classification", "feature_extraction", "evaluation"}

\* The title each run_<family> hands to _start_worker (the source's literals
\* are Chinese; the model names them in ASCII).
Title(f) ==
    CASE f = "file_operation"     -> "FileLoad"
      [] f = "image_processing"   -> "ImageProcessing"
      [] f = "file_saver"         -> "FileSave"
      [] f = "vector_processing"  -> "VectorProcessing"
      [] f = "classification"     -> "Classification"
      [] f = "feature_extraction" -> "FeatureExtraction"
      [] f = "evaluation"         -> "Evaluation"

NoTitle == "-"

\* ------------------------------------------------ parameter dictionaries
\* A Python dict is a function on AllKeys whose absent keys hold Absent.  A
\* value is a scalar or a reference to a mutable heap object (a list or a
\* nested dict): dict.copy() and dict.update() copy references, never objects.
AllKeys == {"bands", "options", "output_dir", "extra"}

Absent == [t |-> "absent", v |-> "", ref |-> 0]
Scalar(x) == [t |-> "scalar", v |-> x, ref |-> 0]
RefTo(r) == [t |-> "ref", v |-> "", ref |-> r]

EmptyDict == [k \in AllKeys |-> Absent]
Present(d, k) == d[k].t # "absent"
KeysOf(d) == {k \in AllKeys : Present(d, k)}

\* heap objects
NoObj == [kind |-> "none", list |-> <<>>, dict |-> {}]
ListObj(s) == [kind |-> "list", list |-> s, dict |-> {}]
DictObj(m) == [kind |-> "dict", list |-> <<>>, dict |-> m]

FamilyIndex(f) ==
    CASE f = "file_operation"     -> 0
      [] f = "image_processing"   -> 1
      [] f = "file_saver"         -> 2
      [] f = "vector_processing"  -> 3
      [] f = "classification"     -> 4
      [] f = "feature_extraction" -> 5
      [] f = "evaluation"         -> 6

\* heap addresses: two objects per family's defaults, two owned by the caller
BandsRef(f) == 2 * FamilyIndex(f) + 1
OptionsRef(f) == 2 * FamilyIndex(f) + 2
CallerListRef == 2 * Cardinality(Families) + 1
CallerDictRef == 2 * Cardinality(Families) + 2
Refs == 1..CallerDictRef

InitHeap ==
    [r \in Refs |->
        IF r = CallerListRef THEN ListObj(<<4>>)
        ELSE IF r = CallerDictRef THEN DictObj({<<"a", 3>>})
        ELSE IF r % 2 = 1 THEN ListObj(<<1, 2>>)
        ELSE DictObj({<<"a", 1>>, <<"b", 2>>})]

\* Config.<family>_params as loaded at start-up; file_saver has no defaults
\* (the getattr(..., {}) fallback of run_file_save).
InitConfig ==
    [f \in Families |->
        IF f = "file_saver" THEN EmptyDict
        ELSE [k \in AllKeys |->
                CASE k = "bands"      -> RefTo(BandsRef(f))
                  [] k = "options"    -> RefTo(OptionsRef(f))
                  [] k = "output_dir" -> Scalar("dir0")
                  [] k = "extra"      -> Absent]]

\* The override dictionaries callers pass (None and {} behave alike).
NoOverride == EmptyDict
Overrides ==
    { NoOverride,
      [EmptyDict EXCEPT !["bands"] = RefTo(CallerListRef)],
      [EmptyDict EXCEPT !["options"] = RefTo(CallerDictRef)],
      [EmptyDict EXCEPT !["extra"] = Scalar("x"), !["output_dir"] = Scalar("dir1")] }

\* dict.copy(): a new dict holding the same value references
DictCopy(d) == [k \in AllKeys |-> d[k]]

\* dict.update(other): every key of other is (re)bound to other's value
DictUpdate(base, other) ==
    [k \in AllKeys |-> IF Present(other, k) THEN other[k] ELSE base[k]]

\* A variant in which the defaults win over the overrides.
ResolveParamsDefaultsWin(defaults, override) ==
    IF KeysOf(override) # {}
    THEN DictUpdate(DictCopy(override), defaults)
    ELSE DictCopy(defaults)

\* base = getattr(config, "<family>_params", {}).copy(); if override: base.update(override)
ResolveParams(defaults, override) ==
    IF KeysOf(override) # {}
    THEN DictUpdate(DictCopy(defaults), override)
    ELSE DictCopy(defaults)

\* What a reader of dictionary d sees through heap h (references followed).
DeepValue(val, h) ==
    [t |-> val.t, v |-> val.v, obj |-> IF val.t = "ref" THEN h[val.ref] ELSE NoObj]
Deep(d, h) == [k \in AllKeys |-> DeepValue(d[k], h)]
DeepAbsent == DeepValue(Absent, InitHeap)

\* ------------------------------------------------------------ TaskResult
Statuses == {"success", "failure"}
NoResult == [status |-> "none", message |-> "", outputs |-> <<>>]
TaskResult(st, msg, outs) == [status |-> st, message |-> msg, outputs |-> outs]
\* the task functions' results, with logs
\* A text is kept as its fixed prefix and the exception text formatted into
\* it (f"...: {e}"); str(e) alone has an empty prefix.
Msg(prefix, text) == [prefix |-> prefix, text |-> text]
NonEmptyText(m) == m.prefix # "" \/ m.text # ""
\* a task function has not returned yet
NoTaskResult ==
    [status |-> "none", message |-> Msg("", ""), outputs |-> <<>>, logs |-> <<>>]
TaskReturn(st, msg, outs, lg) ==
    [status |-> st, message |-> msg, outputs |-> outs, logs |-> lg]

\* The results a family's task may return to its worker.
WorkerResults ==
    { TaskResult("success", "done", <<"out.npy">>),
      TaskResult("failure", "error", <<>>) }

\* base names of the image files a user may open; "-" / "unset" stand for a
\* name with no entry in file_status / file_visibility
ImageNames == {"a.tif", "b.tif"}

\* The image files a user may open: os.path.join(directory, name) for the
\* names _populate_image_list lists, in the order it lists them.
ImagePath(d, n) == [dir |-> d, name |-> n]
Listing == <<ImagePath("d1", "a.tif"), ImagePath("d1", "b.tif")>>
ImagePaths == {Listing[i] : i \in 1..Len(Listing)}

\* os.path.basename(path)
basename(path) == path.name

\* The array file a file-load task writes for one image.
Npy(path) == [dir |-> path.dir, name |-> path.name, ext |-> ".npy"]

\* ----------------------------------------------------------------- state
VARIABLES
    current_worker,  \* MainWindow.current_worker: NoWorker or a worker
    wstate,          \* per worker: "none", "running", "emitted", "ended", "terminated"
    wparams,         \* per worker: the params dict handed to its constructor
    wtitle,          \* per worker: the title its finished-lambda captured
    progressSlots,   \* per worker: slots connected to worker.progress, in order
    finishedSlots,   \* per worker: slots connected to worker.finished, in order
    wprog,           \* per worker: progress messages emitted so far
    wresult,         \* per worker: the TaskResult its task returned
    queue,           \* GUI thread's event queue: queued slot invocations
    dialogText,      \* progressDialog label text
    dialogVisible,   \* progressDialog shown / hidden
    statusMsg,       \* last status-bar message
    current_image_files,  \* MainWindow.current_image_files: opened images
    current_numpy_files,  \* MainWindow.current_numpy_files: loaded arrays
    file_status,     \* MainWindow.file_status: image name -> status
    file_visibility, \* MainWindow.file_visibility: image name -> shown?
    sideList,        \* MainWindow.sideList: the names its items show, in order
    wargs,           \* per worker: the params entries the calling handler built
                     \* ('input_paths', 'paths', 'methods')
    config,          \* task_manager.config: family -> default params dict
    heap,            \* mutable objects that dict values refer to
    nmut,            \* Config mutations performed so far
    \* history variables (observations, never read by the program)
    outcome,         \* per worker: outcome messages _handle_result showed
    progSeen,        \* per worker: progress messages the caller handled
    terminateReq,    \* per worker: terminate() was called on it
    lastCancel,      \* what the last cancel_current_worker call found in the slot
    request,         \* per worker: what its dispatch saw (deep copies)
    \* one task execution (run_evaluation.run, run_from_samples_file,
    \* run_feature_extraction.run) and the file system it writes to
    task,            \* which task function is executing
    pc,              \* the stage it is about to execute
    formats,         \* run_from_samples_file's formats argument
    bands,           \* names of the bands the feature run loads
    features,        \* the results dict entries the feature run saves
    files,           \* paths written so far
    logs,            \* the task's logs list
    outputs,         \* the task's outputs list
    shapes2d,        \* feature_arrays: shapes of the saved 2-D features
    tresult,         \* the TaskResult returned
    trail,           \* history: the stages executed, and whether each raised
    \* one call of a pure function: its name, arguments and result
    call

workerVars == <<wstate, wparams, wtitle, progressSlots, finishedSlots, wprog, wresult>>
guiVars == <<current_worker, queue, dialogText, dialogVisible, statusMsg>>
configVars == <<config, heap, nmut>>
historyVars == <<outcome, progSeen, terminateReq, lastCancel, request>>
fileVars == <<current_image_files, current_numpy_files, file_status, file_visibility,
              sideList, wargs>>
taskVars == <<task, pc, formats, bands, features, files, logs, outputs, shapes2d,
              tresult, trail>>
vars == <<workerVars, guiVars, fileVars, configVars, historyVars, taskVars, call>>

\* QThread.isRunning(): the thread was started and has not ended; it is still
\* true between run()'s emission of finished and the thread's end.
isRunning(w) == wstate[w] \in {"running", "emitted"}

Started(w) == wstate[w] # "none"
FreshWorkers == {w \in Workers : wstate[w] = "none"}

LabelTitle(t) == [kind |-> "title", title |-> t, w |-> NoWorker, n |-> 0]
LabelProgress(n) == [kind |-> "progress", title |-> NoTitle, w |-> NoWorker, n |-> n]
LabelReady == [kind |-> "ready", title |-> NoTitle, w |-> NoWorker, n |-> 0]

NoMessage == [title |-> NoTitle, kind |-> "none", message |-> ""]
DoneMessage(t) == [title |-> t, kind |-> "done", message |-> ""]
FailedMessage(t, m) == [title |-> t, kind |-> "failed", message |-> m]

\* The params entries a handler builds before it dispatches: 'input_paths'
\* is a new list (_open_image's `selected`), 'paths' is a reference to a list
\* object of MainWindow (named here by the attribute holding it), 'methods'
\* a new list.
NoList == "-"
NoArgs == [input_paths |-> <<>>, paths |-> NoList, methods |-> <<>>]

NoRequest == [family |-> "-", defaults |-> Deep(EmptyDict, InitHeap),
              override |-> Deep(EmptyDict, InitHeap), params |-> Deep(EmptyDict, InitHeap),
              unhandled |-> {}]

InitGui ==
    /\ current_worker = NoWorker
    /\ wstate = [w \in Workers |-> "none"]
    /\ wparams = [w \in Workers |-> EmptyDict]
    /\ wtitle = [w \in Workers |-> NoTitle]
    /\ progressSlots = [w \in Workers |-> <<>>]
    /\ finishedSlots = [w \in Workers |-> <<>>]
    /\ wprog = [w \in Workers |-> 0]
    /\ wresult = [w \in Workers |-> NoResult]
    /\ queue = <<>>
    /\ dialogText = LabelReady
    /\ dialogVisible = FALSE
    /\ statusMsg = NoMessage
    /\ current_image_files = <<>>
    /\ current_numpy_files = <<>>
    /\ file_status = [n \in ImageNames |-> "-"]
    /\ file_visibility = [n \in ImageNames |-> "unset"]
    /\ sideList = <<>>
    /\ wargs = [w \in Workers |-> NoArgs]
    /\ config = InitConfig
    /\ heap = InitHeap
    /\ nmut = 0
    /\ outcome = [w \in Workers |-> <<>>]
    /\ progSeen = [w \in Workers |-> <<>>]
    /\ terminateReq = [w \in Workers |-> FALSE]
    /\ lastCancel = "none"
    /\ request = [w \in Workers |-> NoRequest]

\* no task function is being followed
TaskIdle ==
    /\ task = "none"
    /\ pc = "idle"
    /\ formats = {}
    /\ bands = {}
    /\ features = <<>>
    /\ files = {}
    /\ logs = <<>>
    /\ outputs = <<>>
    /\ shapes2d = <<>>
    /\ tresult = NoTaskResult
    /\ trail = <<>>

\* no pure function is being followed
NoCall == [fn |-> "none"]

Init == InitGui /\ TaskIdle /\ call = NoCall

\* ------------------------------------------------ MainWindow: dispatching
\* Variants of _start_worker: the result lambda connected twice, the progress
\* signal connected twice, the result lambda not connected.
_start_worker_connect_twice(w, title) ==
    /\ current_worker' = w
    /\ progressSlots' = [progressSlots EXCEPT ![w] = Append(@, "setLabelText")]
    /\ finishedSlots' = [finishedSlots EXCEPT
                            ![w] = @ \o <<"_clear_current_worker", "_handle_result",
                                          "_handle_result">>]
    /\ wtitle' = [wtitle EXCEPT ![w] = title]
    /\ dialogText' = LabelTitle(title)
    /\ dialogVisible' = TRUE
    /\ wstate' = [wstate EXCEPT ![w] = "running"]

\* _start_worker with the progress signal connected twice
_start_worker_progress_twice(w, title) ==
    /\ current_worker' = w
    /\ progressSlots' = [progressSlots EXCEPT
                            ![w] = @ \o <<"setLabelText", "setLabelText">>]
    /\ finishedSlots' = [finishedSlots EXCEPT
                            ![w] = @ \o <<"_clear_current_worker", "_handle_result">>]
    /\ wtitle' = [wtitle EXCEPT ![w] = title]
    /\ dialogText' = LabelTitle(title)
    /\ dialogVisible' = TRUE
    /\ wstate' = [wstate EXCEPT ![w] = "running"]

\* _start_worker that leaves a slot that is already set alone
_start_worker_keeps_tracked(w, title) ==
    /\ current_worker' = IF current_worker = NoWorker THEN w ELSE current_worker
    /\ progressSlots' = [progressSlots EXCEPT ![w] = Append(@, "setLabelText")]
    /\ finishedSlots' = [finishedSlots EXCEPT
                            ![w] = @ \o <<"_clear_current_worker", "_handle_result">>]
    /\ wtitle' = [wtitle EXCEPT ![w] = title]
    /\ dialogText' = LabelTitle(title)
    /\ dialogVisible' = TRUE
    /\ wstate' = [wstate EXCEPT ![w] = "running"]

\* _start_worker with the two finished slots connected in the other order
_start_worker_result_first(w, title) ==
    /\ current_worker' = w
    /\ progressSlots' = [progressSlots EXCEPT ![w] = Append(@, "setLabelText")]
    /\ finishedSlots' = [finishedSlots EXCEPT
                            ![w] = @ \o <<"_handle_result", "_clear_current_worker">>]
    /\ wtitle' = [wtitle EXCEPT ![w] = title]
    /\ dialogText' = LabelTitle(title)
    /\ dialogVisible' = TRUE
    /\ wstate' = [wstate EXCEPT ![w] = "running"]

_start_worker_no_result_slot(w, title) ==
    /\ current_worker' = w
    /\ progressSlots' = [progressSlots EXCEPT ![w] = Append(@, "setLabelText")]
    /\ finishedSlots' = [finishedSlots EXCEPT ![w] = @ \o <<"_clear_current_worker">>]
    /\ wtitle' = [wtitle EXCEPT ![w] = title]
    /\ dialogText' = LabelTitle(title)
    /\ dialogVisible' = TRUE
    /\ wstate' = [wstate EXCEPT ![w] = "running"]

\* _start_worker(worker, title): track the worker, connect its signals (the
\* finished slots in connection order: first _clear_current_worker, then the
\* lambda calling _handle_result with the captured title), show the dialog,
\* start the thread.
_start_worker(w, title) ==
    /\ current_worker' = w
    /\ progressSlots' = [progressSlots EXCEPT ![w] = Append(@, "setLabelText")]
    /\ finishedSlots' = [finishedSlots EXCEPT
                            ![w] = @ \o <<"_clear_current_worker", "_handle_result">>]
    /\ wtitle' = [wtitle EXCEPT ![w] = title]
    /\ dialogText' = LabelTitle(title)
    /\ dialogVisible' = TRUE
    /\ wstate' = [wstate EXCEPT ![w] = "running"]

\* A variant of run_<family> that starts the tracked worker object again
\* instead of constructing a new one.
run_family_reuses_worker(f, override) ==
    /\ FreshWorkers # {}
    /\ LET w == IF current_worker # NoWorker THEN current_worker
                ELSE CHOOSE x \in FreshWorkers : \A y \in FreshWorkers : x <= y
           base == ResolveParams(config[f], override)
       IN  /\ wparams' = [wparams EXCEPT ![w] = base]
           /\ request' = [request EXCEPT ![w] =
                            [family |-> f,
                             defaults |-> Deep(config[f], heap),
                             override |-> Deep(override, heap),
                             params |-> Deep(base, heap),
                             unhandled |-> {a \in Workers :
                                              Started(a) /\ outcome[a] = <<>>}]]
           /\ _start_worker(w, Title(f))
    /\ UNCHANGED <<wprog, wresult, queue, statusMsg, configVars,
                   outcome, progSeen, terminateReq, lastCancel>>
    /\ UNCHANGED <<taskVars, call>>

\* run_<family>(override): resolve the parameters, construct a fresh worker
\* with them and start it.
run_family(f, override) ==
    /\ FreshWorkers # {}
    /\ LET w == CHOOSE x \in FreshWorkers : \A y \in FreshWorkers : x <= y
           base == ResolveParams(config[f], override)
       IN  /\ wparams' = [wparams EXCEPT ![w] = base]
           /\ request' = [request EXCEPT ![w] =
                            [family |-> f,
                             defaults |-> Deep(config[f], heap),
                             override |-> Deep(override, heap),
                             params |-> Deep(base, heap),
                             unhandled |-> {a \in Workers :
                                              Started(a) /\ outcome[a] = <<>>}]]
           /\ _start_worker(w, Title(f))
    /\ UNCHANGED <<wprog, wresult, queue, statusMsg, configVars,
                   outcome, progSeen, terminateReq, lastCancel>>
    /\ UNCHANGED <<taskVars, call>>

run_file_operation(override) == run_family("file_operation", override)
run_image_processing(override) == run_family("image_processing", override)
run_file_save(override) == run_family("file_saver", override)
run_vector_processing(override) == run_family("vector_processing", override)
run_classification(override) == run_family("classification", override)
run_feature_extraction(override) == run_family("feature_extraction", override)
run_evaluation(override) == run_family("evaluation", override)

\* ------------------------------------------------------ the worker thread
\* Worker.run() on its own thread: zero or more progress emissions, then one
\* finished(result) emission, then the thread ends.  An emission from the
\* worker thread queues one invocation per connected slot, in connection
\* order, on the GUI thread's event queue.
Invocations(slots, w, n) ==
    [i \in 1..Len(slots) |-> [slot |-> slots[i], w |-> w, n |-> n]]

RECURSIVE SumOver(_, _)
SumOver(f, S) ==
    IF S = {} THEN 0
    ELSE LET x == CHOOSE y \in S : TRUE IN f[x] + SumOver(f, S \ {x})
TotalProgress == SumOver(wprog, Workers)

WorkerProgress(w) ==
    /\ wstate[w] = "running"
    /\ TotalProgress < MaxProgress
    /\ wprog' = [wprog EXCEPT ![w] = @ + 1]
    /\ queue' = queue \o Invocations(progressSlots[w], w, wprog[w] + 1)
    /\ UNCHANGED <<wstate, wparams, wtitle, progressSlots, finishedSlots, wresult,
                   current_worker, dialogText, dialogVisible, statusMsg,
                   configVars, historyVars>>
    /\ UNCHANGED <<fileVars, taskVars, call>>

WorkerFinished(w, res) ==
    /\ wstate[w] = "running"
    /\ wresult' = [wresult EXCEPT ![w] = res]
    /\ wstate' = [wstate EXCEPT ![w] = "emitted"]
    /\ queue' = queue \o Invocations(finishedSlots[w], w, 0)
    /\ UNCHANGED <<wparams, wtitle, progressSlots, finishedSlots, wprog,
                   current_worker, dialogText, dialogVisible, statusMsg,
                   configVars, historyVars>>
    /\ UNCHANGED <<fileVars, taskVars, call>>

ThreadEnd(w) ==
    /\ wstate[w] = "emitted"
    /\ wstate' = [wstate EXCEPT ![w] = "ended"]
    /\ UNCHANGED <<wparams, wtitle, progressSlots, finishedSlots, wprog, wresult,
                   guiVars, configVars, historyVars>>
    /\ UNCHANGED <<fileVars, taskVars, call>>

\* --------------------------------------------- the GUI thread's event loop
\* Queued invocations run one at a time, in the order they were queued.
NextEventIndex(q) == 1

NextEvent == queue[NextEventIndex(queue)]
RestOfQueue ==
    [i \in 1..(Len(queue) - 1) |->
        IF i < NextEventIndex(queue) THEN queue[i] ELSE queue[i + 1]]

\* A variant in which the lambda reads a title shared by all dispatches (the
\* title of the latest one) instead of capturing its own.
CapturedTitleShared(w) ==
    wtitle[CHOOSE x \in Workers : Started(x) /\ \A y \in Workers : Started(y) => y <= x]

\* The title the finished-lambda of worker w passes to _handle_result: the
\* one captured when _start_worker connected it.
CapturedTitle(w) == wtitle[w]

\* worker.progress -> progressDialog.setLabelText(message)
DeliverProgress ==
    /\ queue # <<>>
    /\ NextEvent.slot = "setLabelText"
    /\ queue' = RestOfQueue
    /\ dialogText' = LabelProgress(NextEvent.n)
    /\ progSeen' = [progSeen EXCEPT ![NextEvent.w] = Append(@, NextEvent.n)]
    /\ UNCHANGED <<workerVars, current_worker, dialogVisible, statusMsg, configVars,
                   outcome, terminateReq, lastCancel, request>>
    /\ UNCHANGED <<fileVars, taskVars, call>>

\* worker.finished -> _clear_current_worker()
_clear_current_worker ==
    current_worker' = NoWorker

DeliverClear ==
    /\ queue # <<>>
    /\ NextEvent.slot = "_clear_current_worker"
    /\ queue' = RestOfQueue
    /\ _clear_current_worker
    /\ UNCHANGED <<workerVars, dialogText, dialogVisible, statusMsg, configVars,
                   historyVars>>
    /\ UNCHANGED <<fileVars, taskVars, call>>

\* A variant that appends every output, present or not.
AppendAll(lst, outs) == lst \o outs

\* `for o in result.outputs: if o not in lst: lst.append(o)`
RECURSIVE AppendNew(_, _)
AppendNew(lst, outs) ==
    IF outs = <<>> THEN lst
    ELSE AppendNew(IF \E i \in 1..Len(lst) : lst[i] = Head(outs)
                   THEN lst ELSE Append(lst, Head(outs)),
                   Tail(outs))

OpenNames == {basename(current_image_files[i]) : i \in 1..Len(current_image_files)}
\* file_status[name] = status for every opened image
MarkOpen(status) ==
    [n \in ImageNames |-> IF n \in OpenNames THEN status ELSE file_status[n]]

\* _update_file_list(): the side list shows one item per opened image,
\* "<name> - <status>"; only the name is read back from an item.
_update_file_list(images) == [i \in 1..Len(images) |-> basename(images[i])]

\* A variant of _handle_result that updates the file lists and statuses
\* whatever the status of the result is.
_handle_result_any_status(title, result) ==
    /\ dialogVisible' = FALSE
    /\ IF title = Title("file_operation")
       THEN /\ current_numpy_files' = AppendNew(current_numpy_files, result.outputs)
            /\ file_status' = MarkOpen("loaded")
            /\ file_visibility' =
                 [n \in ImageNames |->
                    IF n \in OpenNames /\ file_visibility[n] = "unset"
                    THEN "shown" ELSE file_visibility[n]]
       ELSE IF title = Title("image_processing")
       THEN /\ file_status' = MarkOpen("processed")
            /\ UNCHANGED <<current_numpy_files, file_visibility>>
       ELSE IF title = Title("classification")
       THEN /\ file_status' = MarkOpen("classified")
            /\ UNCHANGED <<current_numpy_files, file_visibility>>
       ELSE UNCHANGED <<current_numpy_files, file_status, file_visibility>>
    /\ sideList' = IF title \in {Title("file_operation"), Title("image_processing"),
                                 Title("classification")}
                   THEN _update_file_list(current_image_files)
                   ELSE sideList
    /\ UNCHANGED <<current_image_files, wargs>>
    /\ statusMsg' = IF result.status = "success"
                    THEN DoneMessage(title)
                    ELSE FailedMessage(title, result.message)

\* _handle_result(title, result): hide the dialog; on success update the
\* file lists and statuses the title calls for and redraw the side list;
\* show the outcome message.  (_refresh_display redraws the image view.)
_handle_result(title, result) ==
    /\ dialogVisible' = FALSE
    /\ IF result.status = "success" /\ title = Title("file_operation")
       THEN /\ current_numpy_files' = AppendNew(current_numpy_files, result.outputs)
            /\ file_status' = MarkOpen("loaded")
            /\ file_visibility' =
                 [n \in ImageNames |->
                    IF n \in OpenNames /\ file_visibility[n] = "unset"
                    THEN "shown" ELSE file_visibility[n]]
       ELSE IF result.status = "success" /\ title = Title("image_processing")
       THEN /\ file_status' = MarkOpen("processed")
            /\ UNCHANGED <<current_numpy_files, file_visibility>>
       ELSE IF result.status = "success" /\ title = Title("classification")
       THEN /\ file_status' = MarkOpen("classified")
            /\ UNCHANGED <<current_numpy_files, file_visibility>>
       ELSE UNCHANGED <<current_numpy_files, file_status, file_visibility>>
    /\ sideList' = IF /\ result.status = "success"
                      /\ title \in {Title("file_operation"), Title("image_processing"),
                                    Title("classification")}
                   THEN _update_file_list(current_image_files)
                   ELSE sideList
    /\ UNCHANGED <<current_image_files, wargs>>
    /\ statusMsg' = IF result.status = "success"
                    THEN DoneMessage(title)
                    ELSE FailedMessage(title, result.message)

\* worker.finished -> lambda res: _handle_result(title, res)
DeliverResult ==
    /\ queue # <<>>
    /\ NextEvent.slot = "_handle_result"
    /\ queue' = RestOfQueue
    /\ _handle_result(CapturedTitle(NextEvent.w), wresult[NextEvent.w])
    /\ outcome' = [outcome EXCEPT ![NextEvent.w] = Append(@, statusMsg')]
    /\ UNCHANGED <<workerVars, current_worker, dialogText, configVars,
                   progSeen, terminateReq, lastCancel, request>>
    /\ UNCHANGED <<taskVars, call>>

\* cancel_current_worker(): terminate the tracked worker if it is running.
\* QThread.terminate() kills the thread at once; invocations already queued
\* stay queued.
\* What a cancel call finds: an empty slot, or the tracked worker's state.
SlotCase == IF current_worker = NoWorker THEN "empty" ELSE wstate[current_worker]

\* A variant that terminates whatever the slot holds, running or not.
cancel_without_running_check ==
    /\ lastCancel' = SlotCase
    /\ IF current_worker # NoWorker
       THEN /\ wstate' = [wstate EXCEPT ![current_worker] =
                            IF isRunning(current_worker) THEN "terminated" ELSE @]
            /\ terminateReq' = [terminateReq EXCEPT ![current_worker] = TRUE]
       ELSE UNCHANGED <<wstate, terminateReq>>
    /\ UNCHANGED <<wparams, wtitle, progressSlots, finishedSlots, wprog, wresult,
                   guiVars, configVars, outcome, progSeen, request>>
    /\ UNCHANGED <<fileVars, taskVars, call>>

cancel_current_worker ==
    /\ lastCancel' = SlotCase
    /\ IF current_worker # NoWorker /\ isRunning(current_worker)
       THEN /\ wstate' = [wstate EXCEPT ![current_worker] = "terminated"]
            /\ terminateReq' = [terminateReq EXCEPT ![current_worker] = TRUE]
       ELSE UNCHANGED <<wstate, terminateReq>>
    /\ UNCHANGED <<wparams, wtitle, progressSlots, finishedSlots, wprog, wresult,
                   guiVars, configVars, outcome, progSeen, request>>
    /\ UNCHANGED <<fileVars, taskVars, call>>

\* ------------------------------------------- MainWindow: the file lists
\* The worker object the next run_<family> call constructs.
NewWorker == CHOOSE x \in FreshWorkers : \A y \in FreshWorkers : x <= y

\* sequences without repetition over S
Distinct(seq) == \A i, j \in 1..Len(seq) : seq[i] = seq[j] => i = j
ListsOver(S) == {seq \in UNION {[1..n -> S] : n \in 0..Cardinality(S)} : Distinct(seq)}

\* widget.selectedItems() of the open-image dialog, joined with the
\* directory: nothing, the first item, or the items from the top down
Selections == {SubSeq(Listing, 1, n) : n \in 0..Len(Listing)}

\* _open_image(dialog, widget, directory): no selection, no effect; else add
\* the selected paths not yet open to current_image_files and dispatch a
\* file load of exactly the selection.  ({'input_paths': selected} is the
\* override; it is kept in wargs.)
_open_image(selected) ==
    IF selected = <<>>
    THEN UNCHANGED vars
    ELSE /\ run_file_operation(NoOverride)
         /\ current_image_files' = AppendNew(current_image_files, selected)
         /\ wargs' = [wargs EXCEPT ![NewWorker] = [NoArgs EXCEPT !.input_paths = selected]]
         /\ UNCHANGED <<current_numpy_files, file_status, file_visibility, sideList>>

\* statusBar().showMessage('请先加载影像文件')
LoadFirstMessage == [title |-> NoTitle, kind |-> "load_first", message |-> ""]

\* the (methods, options) pairs the processing dialogs pass; None for options
\* is Absent
Processings ==
    { [methods |-> <<"stretch">>, options |-> RefTo(CallerDictRef)],
      [methods |-> <<"equalization">>, options |-> Absent] }

\* `options or {}`: a new empty dict nobody else refers to
OptionsOrEmpty(options) == IF options = Absent THEN Scalar("{}") ELSE options

\* A variant of _run_processing without the empty-list guard.
_run_processing_unguarded(methods, options) ==
    /\ run_image_processing([EmptyDict EXCEPT !["options"] = OptionsOrEmpty(options)])
    /\ wargs' = [wargs EXCEPT ![NewWorker] =
                    [NoArgs EXCEPT !.paths = "current_numpy_files", !.methods = methods]]
    /\ UNCHANGED <<current_image_files, current_numpy_files, file_status,
                   file_visibility, sideList>>

\* A variant of _run_processing that passes the opened images as 'paths'.
_run_processing_image_files(methods, options) ==
    IF current_numpy_files = <<>>
    THEN /\ statusMsg' = LoadFirstMessage
         /\ UNCHANGED <<workerVars, current_worker, queue, dialogText, dialogVisible,
                        fileVars, configVars, historyVars, taskVars, call>>
    ELSE /\ run_image_processing([EmptyDict EXCEPT !["options"] = OptionsOrEmpty(options)])
         /\ wargs' = [wargs EXCEPT ![NewWorker] =
                         [NoArgs EXCEPT !.paths = "current_image_files", !.methods = methods]]
         /\ UNCHANGED <<current_image_files, current_numpy_files, file_status,
                        file_visibility, sideList>>

\* _run_processing(methods, options): with no loaded array only a status-bar
\* message; else dispatch image processing with 'paths' bound to the
\* current_numpy_files list object itself.
_run_processing(methods, options) ==
    IF current_numpy_files = <<>>
    THEN /\ statusMsg' = LoadFirstMessage
         /\ UNCHANGED <<workerVars, current_worker, queue, dialogText, dialogVisible,
                        fileVars, configVars, historyVars, taskVars, call>>
    ELSE /\ run_image_processing([EmptyDict EXCEPT !["options"] = OptionsOrEmpty(options)])
         /\ wargs' = [wargs EXCEPT ![NewWorker] =
                         [NoArgs EXCEPT !.paths = "current_numpy_files", !.methods = methods]]
         /\ UNCHANGED <<current_image_files, current_numpy_files, file_status,
                        file_visibility, sideList>>

\* list.pop(i), i counted from 1
RemoveAt(lst, i) == [j \in 1..(Len(lst) - 1) |-> IF j < i THEN lst[j] ELSE lst[j + 1]]

\* the first position of images whose base name is name, 0 if there is none
FirstNamed(images, name) ==
    IF \E i \in 1..Len(images) : basename(images[i]) = name
    THEN CHOOSE i \in 1..Len(images) :
            /\ basename(images[i]) = name
            /\ \A j \in 1..(i - 1) : basename(images[j]) # name
    ELSE 0

\* the four file attributes as one value
FileState(images, arrays, status, visibility) ==
    [images |-> images, arrays |-> arrays, status |-> status, visibility |-> visibility]

\* The body of the remove loop for one selected item: drop the name's status
\* and visibility, pop the first image of that name and the array at the same
\* index (if the array list is that long).
RemoveItem(st, name) ==
    LET i == FirstNamed(st.images, name)
    IN  FileState(IF i = 0 THEN st.images ELSE RemoveAt(st.images, i),
                  IF i = 0 \/ i > Len(st.arrays) THEN st.arrays ELSE RemoveAt(st.arrays, i),
                  [st.status EXCEPT ![name] = "-"],
                  [st.visibility EXCEPT ![name] = "unset"])

RECURSIVE RemoveItems(_, _)
RemoveItems(st, names) ==
    IF names = <<>> THEN st ELSE RemoveItems(RemoveItem(st, Head(names)), Tail(names))

\* sideList.selectedItems(): any items of the side list, in list order
ItemSelections ==
    {sel \in ListsOver(1..Len(sideList)) : \A i, j \in 1..Len(sel) : i < j => sel[i] < sel[j]}

\* _show_side_list_menu, "remove selected"
SideListRemove(selected) ==
    LET names == [k \in 1..Len(selected) |-> sideList[selected[k]]]
        st == RemoveItems(FileState(current_image_files, current_numpy_files,
                                    file_status, file_visibility), names)
    IN  /\ current_image_files' = st.images
        /\ current_numpy_files' = st.arrays
        /\ file_status' = st.status
        /\ file_visibility' = st.visibility
        /\ sideList' = _update_file_list(st.images)

\* _show_side_list_menu, "clear list"
SideListClear ==
    /\ sideList' = <<>>
    /\ current_image_files' = <<>>
    /\ current_numpy_files' = <<>>
    /\ file_status' = [n \in ImageNames |-> "-"]
    /\ file_visibility' = [n \in ImageNames |-> "unset"]

\* _show_side_list_menu(pos): the user picks an entry of the context menu or
\* dismisses it.
_show_side_list_menu(action, selected) ==
    /\ CASE action = "remove" -> SideListRemove(selected)
         [] action = "clear"  -> SideListClear
         [] OTHER             -> UNCHANGED <<current_image_files, current_numpy_files,
                                             file_status, file_visibility, sideList>>
    /\ UNCHANGED <<wargs, workerVars, guiVars, configVars, historyVars, taskVars, call>>

\* What a file-load task returns for its input_paths: one array per input, in
\* order (possibly naming one twice), or a failure.
Arrays(paths) == [i \in 1..Len(paths) |-> Npy(paths[i])]
FileResults(input_paths) ==
    { TaskResult("success", "done", Arrays(input_paths)),
      TaskResult("success", "done", Arrays(input_paths) \o <<Npy(input_paths[1])>>),
      TaskResult("failure", "error", <<>>) }

\* The results worker w's task may return.
ResultsOf(w) ==
    IF wtitle[w] = Title("file_operation") /\ wargs[w].input_paths # <<>>
    THEN FileResults(wargs[w].input_paths)
    ELSE WorkerResults

\* The list a worker's 'paths' parameter refers to, as the worker reads it.
PathsOf(w) ==
    CASE wargs[w].paths = "current_numpy_files" -> current_numpy_files
      [] wargs[w].paths = "current_image_files" -> current_image_files
      [] OTHER -> <<>>

\* ------------------------------------------------ the caller mutates Config
\* config.<family>_params[k] = val
ConfigRebind(f, k, val) ==
    /\ nmut < MaxMutations
    /\ Present(config[f], k)
    /\ config[f][k] # val
    /\ config' = [config EXCEPT ![f][k] = val]
    /\ nmut' = nmut + 1
    /\ UNCHANGED <<workerVars, guiVars, heap, historyVars>>
    /\ UNCHANGED <<fileVars, taskVars, call>>

\* config.<family>_params["bands"].append(9)
ConfigAppend(f) ==
    /\ nmut < MaxMutations
    /\ config[f]["bands"].t = "ref"
    /\ LET r == config[f]["bands"].ref
       IN  /\ heap[r].kind = "list"
           /\ Len(heap[r].list) < MaxListLen
           /\ heap' = [heap EXCEPT ![r].list = Append(@, 9)]
    /\ nmut' = nmut + 1
    /\ UNCHANGED <<workerVars, guiVars, config, historyVars>>
    /\ UNCHANGED <<fileVars, taskVars, call>>

\* config.<family>_params["options"]["a"] = 7
ConfigSetItem(f) ==
    /\ nmut < MaxMutations
    /\ config[f]["options"].t = "ref"
    /\ LET r == config[f]["options"].ref
       IN  /\ heap[r].kind = "dict"
           /\ <<"a", 7>> \notin heap[r].dict
           /\ heap' = [heap EXCEPT ![r].dict =
                         {p \in @ : p[1] # "a"} \cup {<<"a", 7>>}]
    /\ nmut' = nmut + 1
    /\ UNCHANGED <<workerVars, guiVars, config, historyVars>>
    /\ UNCHANGED <<fileVars, taskVars, call>>

\* ------------------------------------------------- tasks: common vocabulary
\* texts an exception can carry; str(e) may be the empty string
ExcTexts == {"", "boom"}
\* a path under output_dir; item distinguishes the files of one feature
Path(name, entry, item) == [name |-> name, entry |-> entry, item |-> item]
File(name) == Path(name, 0, 0)
Returned == tresult.status # "none"

\* ------------------------------------------- run_evaluation.run (stages)
\* trail records each stage a task function executed and whether it raised
Ran(stage) == trail' = Append(trail, [stage |-> stage, raised |-> FALSE])
Raised(stage) == trail' = Append(trail, [stage |-> stage, raised |-> TRUE])

\* A variant of the except branch that returns only the failure message as logs.
EvalFailLogsOnlyMessage(prefix, e) ==
    /\ tresult' = TaskReturn("failure", Msg(prefix, e), outputs, <<Msg(prefix, e)>>)
    /\ pc' = "done"
    /\ Raised(pc)
    /\ UNCHANGED <<logs, outputs>>

\* `except Exception as e: msg = f"<prefix>: {e}"; return TaskResult(
\*  status="failure", message=msg, outputs=outputs, logs=logs + [msg])`
EvalFail(prefix, e) ==
    /\ tresult' = TaskReturn("failure", Msg(prefix, e), outputs,
                             Append(logs, Msg(prefix, e)))
    /\ pc' = "done"
    /\ Raised(pc)
    /\ UNCHANGED <<logs, outputs>>

\* a stage that writes no artifact: on success its log lines are appended
EvalStage(stage, next, okLogs, failPrefix) ==
    /\ task = "evaluation"
    /\ pc = stage
    /\ \/ /\ logs' = logs \o okLogs
          /\ pc' = next
          /\ Ran(pc)
          /\ UNCHANGED <<outputs, tresult>>
       \/ \E e \in ExcTexts : EvalFail(failPrefix, e)
    /\ UNCHANGED <<task, formats, bands, features, files, shapes2d>>
    /\ UNCHANGED <<workerVars, guiVars, fileVars, configVars, historyVars, call>>

EvalMakeDirs ==
    EvalStage("makedirs", "load_class_map", <<Msg("created output dir", "")>>,
              "cannot create output dir")

EvalLoadClassMap ==
    EvalStage("load_class_map", "load_roi", <<Msg("loaded class map", "")>>,
              "loading class map failed")

EvalLoadRoi ==
    EvalStage("load_roi", "extract_samples", <<Msg("loaded ROI", "")>>,
              "loading ROI failed")

EvalExtractSamples ==
    EvalStage("extract_samples", "confusion_matrix",
              <<Msg("extracted valid samples", "")>>,
              "extracting samples failed")

\* A variant that lists cm_path in outputs before the figure is saved.
EvalConfusionMatrixListsFirst ==
    /\ task = "evaluation"
    /\ pc = "confusion_matrix"
    /\ \/ /\ files' = files \cup {File("confusion_matrix.png")}
          /\ logs' = Append(logs, Msg("saved confusion matrix", ""))
          /\ outputs' = Append(outputs, File("confusion_matrix.png"))
          /\ pc' = "oa_kappa"
          /\ Ran(pc)
          /\ UNCHANGED tresult
       \/ \E e \in ExcTexts, partial \in BOOLEAN :
            /\ files' = IF partial THEN files \cup {File("confusion_matrix.png")}
                                   ELSE files
            /\ tresult' = TaskReturn("failure", Msg("confusion matrix failed", e),
                                     Append(outputs, File("confusion_matrix.png")),
                                     Append(logs, Msg("confusion matrix failed", e)))
            /\ outputs' = Append(outputs, File("confusion_matrix.png"))
            /\ pc' = "done"
            /\ Raised(pc)
            /\ UNCHANGED logs
    /\ UNCHANGED <<task, formats, bands, features, shapes2d>>
    /\ UNCHANGED <<workerVars, guiVars, fileVars, configVars, historyVars, call>>

\* compute_confusion_matrix, plot_confusion_matrix, fig.savefig(cm_path),
\* then logs.append and outputs.append(cm_path); an exception may come before
\* or while the figure file is written
EvalConfusionMatrix ==
    /\ task = "evaluation"
    /\ pc = "confusion_matrix"
    /\ \/ /\ files' = files \cup {File("confusion_matrix.png")}
          /\ logs' = Append(logs, Msg("saved confusion matrix", ""))
          /\ outputs' = Append(outputs, File("confusion_matrix.png"))
          /\ pc' = "oa_kappa"
          /\ Ran(pc)
          /\ UNCHANGED tresult
       \/ \E e \in ExcTexts, partial \in BOOLEAN :
            /\ files' = IF partial THEN files \cup {File("confusion_matrix.png")}
                                   ELSE files
            /\ EvalFail("confusion matrix failed", e)
    /\ UNCHANGED <<task, formats, bands, features, shapes2d>>
    /\ UNCHANGED <<workerVars, guiVars, fileVars, configVars, historyVars, call>>

\* compute_overall_accuracy, compute_kappa, then one log line each; formatting
\* the Kappa line can still raise after the OA line was appended
EvalOaKappa ==
    /\ task = "evaluation"
    /\ pc = "oa_kappa"
    /\ \/ /\ logs' = logs \o <<Msg("OA", ""), Msg("Kappa", "")>>
          /\ pc' = "report"
          /\ Ran(pc)
          /\ UNCHANGED <<outputs, tresult>>
       \/ \E e \in ExcTexts : EvalFail("computing OA/Kappa failed", e)
       \/ \E e \in ExcTexts :
            LET msg == Msg("computing OA/Kappa failed", e) IN
            /\ logs' = Append(logs, Msg("OA", ""))
            /\ tresult' = TaskReturn("failure", msg, outputs, Append(logs', msg))
            /\ pc' = "done"
            /\ Raised(pc)
            /\ UNCHANGED outputs
    /\ UNCHANGED <<task, formats, bands, features, files, shapes2d>>
    /\ UNCHANGED <<workerVars, guiVars, fileVars, configVars, historyVars, call>>

\* generate_text_report(report_path=...), logs.append, outputs.append, then
\* the final `return TaskResult(status="success", ...)`
EvalReport ==
    /\ task = "evaluation"
    /\ pc = "report"
    /\ \/ /\ files' = files \cup {File("evaluation_report.txt")}
          /\ logs' = Append(logs, Msg("generated report", ""))
          /\ outputs' = Append(outputs, File("evaluation_report.txt"))
          /\ tresult' = TaskReturn("success", Msg("evaluation finished", ""),
                                   outputs', logs')
          /\ pc' = "done"
          /\ Ran(pc)
       \/ \E e \in ExcTexts, partial \in BOOLEAN :
            /\ files' = IF partial THEN files \cup {File("evaluation_report.txt")}
                                   ELSE files
            /\ EvalFail("generating report failed", e)
    /\ UNCHANGED <<task, formats, bands, features, shapes2d>>
    /\ UNCHANGED <<workerVars, guiVars, fileVars, configVars, historyVars, call>>

\* ------------------------------------- run_evaluation.run_from_samples_file
Formats == {"png", "csv", "json", "txt"}
\* the five paths run_from_samples_file lists, in the order it lists them
SamplesOutputs ==
    <<File("prefix.png"), File("prefix_normalized.png"), File("prefix.csv"),
      File("prefix.json"), File("prefix_report.txt")>>
\* evaluate_from_samples_file writes the artifacts of the requested formats
FormatFiles(fmt) ==
    CASE fmt = "png"  -> {File("prefix.png"), File("prefix_normalized.png")}
      [] fmt = "csv"  -> {File("prefix.csv")}
      [] fmt = "json" -> {File("prefix.json")}
      [] fmt = "txt"  -> {File("prefix_report.txt")}
WrittenFor(fmts) == UNION {FormatFiles(fmt) : fmt \in fmts}

SamplesMakeDirs ==
    /\ task = "samples"
    /\ pc = "makedirs"
    /\ \/ /\ logs' = Append(logs, Msg("created output dir", ""))
          /\ pc' = "evaluate"
          /\ Ran(pc)
          /\ UNCHANGED <<outputs, tresult>>
       \/ \E e \in ExcTexts : EvalFail("cannot create output dir", e)
    /\ UNCHANGED <<task, formats, bands, features, files, shapes2d>>
    /\ UNCHANGED <<workerVars, guiVars, fileVars, configVars, historyVars, call>>

\* evaluate_from_samples_file(..., formats=formats); two log lines;
\* outputs.extend([...five paths...]); return success
SamplesEvaluate ==
    /\ task = "samples"
    /\ pc = "evaluate"
    /\ \/ /\ files' = files \cup WrittenFor(formats)
          /\ logs' = logs \o <<Msg("OA", ""), Msg("macro F1", "")>>
          /\ outputs' = outputs \o SamplesOutputs
          /\ tresult' = TaskReturn("success", Msg("evaluation finished", ""),
                                   outputs', logs')
          /\ pc' = "done"
          /\ Ran(pc)
       \/ \E e \in ExcTexts, done \in SUBSET formats :
            /\ files' = files \cup WrittenFor(done)
            /\ EvalFail("evaluation from file failed", e)
       \/ \E e \in ExcTexts :
            \* metrics.macro_avg['f1_score'] raised after the OA line
            LET msg == Msg("evaluation from file failed", e) IN
            /\ files' = files \cup WrittenFor(formats)
            /\ logs' = Append(logs, Msg("OA", ""))
            /\ tresult' = TaskReturn("failure", msg, outputs, Append(logs', msg))
            /\ pc' = "done"
            /\ Raised(pc)
            /\ UNCHANGED outputs
    /\ UNCHANGED <<task, formats, bands, features, shapes2d>>
    /\ UNCHANGED <<workerVars, guiVars, fileVars, configVars, historyVars, call>>

\* ----------------------------------------- run_feature_extraction.run
BandNames == {"blue", "green", "red", "nir", "swir"}
\* band_arrays' keys after loading: none, generic names, two mapped, all five
BandSets == {{}, {"band_1"}, {"nir", "red"}, BandNames}
Shapes == {"h1", "h2"}
\* what a collaborator put into results: an ndarray, a list of ndarrays, a
\* dict of ndarrays, or a value of another type (None, a tuple, ...)
Item(ndim, shape) == [ndim |-> ndim, shape |-> shape]
ArrayValue(ndim, shape) == [kind |-> "array", items |-> <<Item(ndim, shape)>>]
ListValue(items) == [kind |-> "list", items |-> items]
DictValue(items) == [kind |-> "dict", items |-> items]
OtherValue == [kind |-> "other", items |-> <<>>]
FeatureValues ==
    {ArrayValue(2, "h1"), ArrayValue(2, "h2"), ArrayValue(3, "h1"),
     ListValue(<<>>), ListValue(<<Item(2, "h1"), Item(2, "h2")>>),
     DictValue(<<Item(2, "h1")>>), OtherValue}
FeatureDicts == UNION {[1..n -> FeatureValues] : n \in 0..MaxFeatures}

\* the np.save calls of the saving loop, in loop order
EntryItems(e, v) ==
    IF v.kind = "other" THEN <<>>
    ELSE [j \in 1..Len(v.items) |->
            [path |-> Path(v.kind, e, j), ndim |-> v.items[j].ndim,
             shape |-> v.items[j].shape]]
RECURSIVE SaveItemsUpTo(_, _)
SaveItemsUpTo(res, n) ==
    IF n = 0 THEN <<>> ELSE SaveItemsUpTo(res, n - 1) \o EntryItems(n, res[n])
SaveItems(res) == SaveItemsUpTo(res, Len(res))

\* `except Exception as e: logs.append(f"error: {e}"); return TaskResult(
\*  status="failure", message=str(e), outputs=outputs, logs=logs)`
FeatFail(e, outs) ==
    /\ logs' = Append(logs, Msg("error: ", e))
    /\ outputs' = outs
    /\ tresult' = TaskReturn("failure", Msg("", e), outs, logs')
    /\ pc' = "done"
    /\ Raised(pc)

\* a stage inside the try block that saves nothing
FeatStage(stage, next, okLogs, canFail) ==
    /\ task = "features"
    /\ pc = stage
    /\ \/ /\ logs' = logs \o okLogs
          /\ pc' = next
          /\ Ran(pc)
          /\ UNCHANGED <<outputs, tresult>>
       \/ /\ canFail
          /\ \E e \in ExcTexts : FeatFail(e, outputs)
    /\ UNCHANGED <<task, formats, bands, features, files, shapes2d>>
    /\ UNCHANGED <<workerVars, guiVars, fileVars, configVars, historyVars, call>>

FeatMakeDirs ==
    FeatStage("makedirs", "load_bands", <<Msg("created output dir", "")>>, TRUE)

FeatLoadBands ==
    FeatStage("load_bands", "indices", <<Msg("loaded bands", "")>>, TRUE)

HasBands(bs) == bs \subseteq bands
IndexLogs ==
    (IF HasBands({"nir", "red"}) THEN <<Msg("NDVI, MSAVI", "")>> ELSE <<>>)
    \o (IF HasBands({"nir", "red", "blue"}) THEN <<Msg("EVI", "")>> ELSE <<>>)
    \o (IF HasBands({"green", "nir"}) THEN <<Msg("NDWI", "")>> ELSE <<>>)
    \o (IF HasBands({"green", "swir"}) THEN <<Msg("MNDWI", "")>> ELSE <<>>)
    \o (IF HasBands({"swir", "nir"}) THEN <<Msg("NDBI", "")>> ELSE <<>>)
    \o (IF HasBands({"blue", "red", "nir", "swir"}) THEN <<Msg("BSI", "")>> ELSE <<>>)

FeatIndices == FeatStage("indices", "texture", IndexLogs, IndexLogs # <<>>)

FeatTexture ==
    FeatStage("texture", "pca",
              IF "nir" \in bands THEN <<Msg("GLCM, LBP, Gabor", "")>> ELSE <<>>,
              "nir" \in bands)

\* perform_pca sits in its own try/except: its exception is logged and the
\* run goes on with comps = []
FeatPca ==
    /\ task = "features"
    /\ pc = "pca"
    /\ \/ /\ logs' = Append(logs, Msg("PCA done", ""))
          /\ Ran(pc)
       \/ \E e \in ExcTexts :
            /\ logs' = logs \o <<Msg("PCA failed: ", e), Msg("PCA done", "")>>
            /\ Raised(pc)
    /\ pc' = "morphology"
    /\ UNCHANGED <<task, formats, bands, features, files, outputs, shapes2d, tresult>>
    /\ UNCHANGED <<workerVars, guiVars, fileVars, configVars, historyVars, call>>

FeatMorphology ==
    FeatStage("morphology", "selection",
              IF "nir" \in bands THEN <<Msg("morphology, filters", "")>> ELSE <<>>,
              "nir" \in bands)

\* feature_selection_by_variance, then calculate_multi_scale_features(
\* band_arrays.get('nir', list(band_arrays.values())[0])): the default
\* argument raises IndexError when no band was loaded
FeatSelection ==
    /\ task = "features"
    /\ pc = "selection"
    /\ \/ /\ bands # {}
          /\ logs' = Append(logs, Msg("selection, multi-scale", ""))
          /\ pc' = "fusion"
          /\ Ran(pc)
          /\ UNCHANGED <<outputs, tresult>>
       \/ \E e \in ExcTexts : FeatFail(e, outputs)
    /\ UNCHANGED <<task, formats, bands, features, files, shapes2d>>
    /\ UNCHANGED <<workerVars, guiVars, fileVars, configVars, historyVars, call>>

FeatFusion ==
    FeatStage("fusion", "save", <<Msg("fusion, spatial context", "")>>, TRUE)

\* one np.save(fp, ...) of the saving loop followed by outputs.append(fp);
\* a 2-D array is also added to feature_arrays
FeatSaveItem ==
    /\ task = "features"
    /\ pc = "save"
    /\ Len(outputs) < Len(SaveItems(features))
    /\ LET it == SaveItems(features)[Len(outputs) + 1] IN
         \/ /\ files' = files \cup {it.path}
            /\ outputs' = Append(outputs, it.path)
            /\ shapes2d' = IF it.ndim = 2 THEN Append(shapes2d, it.shape)
                                          ELSE shapes2d
            /\ Ran(pc)
            /\ UNCHANGED <<pc, logs, tresult>>
         \/ \E e \in ExcTexts, partial \in BOOLEAN :
              /\ files' = IF partial THEN files \cup {it.path} ELSE files
              /\ FeatFail(e, outputs)
              /\ UNCHANGED shapes2d
    /\ UNCHANGED <<task, formats, bands, features>>
    /\ UNCHANGED <<workerVars, guiVars, fileVars, configVars, historyVars, call>>

\* A variant that aggregates without comparing the shapes.
ShapesNotCompared(s) == TRUE

\* all(shape == ref_shape for shape in shapes), ref_shape = shapes[0]
SameShapes(s) == \A i \in 1..Len(s) : s[i] = s[1]
SavedLog == Msg("saved all features", "")

\* after the loop: aggregation into feature_all.npy and feature_info.json,
\* the closing log line and `return TaskResult(status="success", ...)`
FeatAggregate ==
    /\ task = "features"
    /\ pc = "save"
    /\ Len(outputs) = Len(SaveItems(features))
    /\ \/ /\ shapes2d = <<>>
          /\ logs' = Append(logs, SavedLog)
          /\ tresult' = TaskReturn("success", Msg("feature extraction finished", ""),
                                   outputs, logs')
          /\ pc' = "done"
          /\ Ran("aggregate")
          /\ UNCHANGED <<files, outputs>>
       \/ /\ shapes2d # <<>>
          /\ ~SameShapes(shapes2d)
          /\ logs' = logs \o <<Msg("warning: shapes differ, aggregation skipped", ""),
                               SavedLog>>
          /\ tresult' = TaskReturn("success", Msg("feature extraction finished", ""),
                                   outputs, logs')
          /\ pc' = "done"
          /\ Ran("aggregate")
          /\ UNCHANGED <<files, outputs>>
       \/ /\ shapes2d # <<>>
          /\ SameShapes(shapes2d)
          /\ \/ /\ files' = files \cup {File("feature_all.npy"),
                                        File("feature_info.json")}
                /\ outputs' = outputs \o <<File("feature_all.npy"),
                                           File("feature_info.json")>>
                /\ logs' = logs \o <<Msg("feature_all.npy", ""),
                                     Msg("feature count", ""), SavedLog>>
                /\ tresult' = TaskReturn("success",
                                         Msg("feature extraction finished", ""),
                                         outputs', logs')
                /\ pc' = "done"
                /\ Ran("aggregate")
             \/ \E e \in ExcTexts, partial \in BOOLEAN :
                  \* np.stack or np.save(feature_all_path) raised
                  /\ files' = IF partial THEN files \cup {File("feature_all.npy")}
                                         ELSE files
                  /\ FeatFail(e, outputs)
             \/ \E e \in ExcTexts, partial \in BOOLEAN :
                  \* open or json.dump of feature_info_path raised
                  /\ files' = files \cup {File("feature_all.npy")}
                                \cup (IF partial THEN {File("feature_info.json")}
                                                 ELSE {})
                  /\ FeatFail(e, Append(outputs, File("feature_all.npy")))
    /\ UNCHANGED <<task, formats, bands, features, shapes2d>>
    /\ UNCHANGED <<workerVars, guiVars, fileVars, configVars, historyVars, call>>

\* ------------------------------ sample_verification.load_samples_from_file
\* A sample table: the columns it has and its rows; a row gives a value for
\* every column name, the values under columns the table lacks are not read.
ColumnNames == {"true_label", "CLASSIFIED", "predicted_label", "RASTERVALU"}
ColumnSets ==
    { {}, {"CLASSIFIED"}, {"CLASSIFIED", "RASTERVALU"},
      {"true_label", "predicted_label"}, {"true_label", "RASTERVALU"},
      ColumnNames }
\* -1 marks an unlabelled row
Unlabelled == 0 - 1
Labels == {Unlabelled, 1}
Rows == [ColumnNames -> Labels]
Tables == UNION {[1..n -> Rows] : n \in 0..MaxRows}
\* os.path.splitext(file_path)[-1] of the files a caller may name
Extensions == {".csv", ".CSV", ".xls", ".xlsx", ".txt", ""}

\* str.lower() on these extensions
Lower(ext) == IF ext = ".CSV" THEN ".csv" ELSE ext

\* A variant that reads a file of any extension as a table.
AnyExtension(ext) == TRUE

\* ext == '.csv' or ext in ('.xls', '.xlsx')
SupportedExtension(ext) == ext \in {".csv", ".xls", ".xlsx"}

RaiseValueError(text) == [kind |-> "raise", error |-> text]
ReturnSamples(yt, yp) == [kind |-> "return", y_true |-> yt, y_pred |-> yp]
NotCalled == [kind |-> "pending"]

\* df[dst] = df[src]
CopyColumn(rows, dst, src) ==
    [i \in 1..Len(rows) |-> [rows[i] EXCEPT ![dst] = rows[i][src]]]
Column(rows, col) == [i \in 1..Len(rows) |-> rows[i][col]]

\* A variant that drops the rows whose predicted label is -1.
FilterLabelledByPrediction(rows) ==
    SelectSeq(rows, LAMBDA r : r["predicted_label"] # Unlabelled)

\* df = df[df['true_label'] != -1]
FilterLabelled(rows) == SelectSeq(rows, LAMBDA r : r["true_label"] # Unlabelled)

load_samples_from_file(ext, cols, rows) ==
    IF ~SupportedExtension(Lower(ext))
    THEN RaiseValueError("unsupported file format")
    ELSE
    LET mapTrue == "true_label" \notin cols /\ "CLASSIFIED" \in cols
        cols1 == IF mapTrue THEN cols \cup {"true_label"} ELSE cols
        rows1 == IF mapTrue THEN CopyColumn(rows, "true_label", "CLASSIFIED") ELSE rows
        mapPred == "predicted_label" \notin cols1 /\ "RASTERVALU" \in cols1
        cols2 == IF mapPred THEN cols1 \cup {"predicted_label"} ELSE cols1
        rows2 == IF mapPred THEN CopyColumn(rows1, "predicted_label", "RASTERVALU")
                            ELSE rows1
    IN  IF "true_label" \notin cols2 \/ "predicted_label" \notin cols2
        THEN RaiseValueError("label columns missing")
        ELSE LET df == FilterLabelled(rows2) IN
             IF Len(df) = 0
             THEN RaiseValueError("no labelled row")
             ELSE ReturnSamples(Column(df, "true_label"), Column(df, "predicted_label"))

\* -------------------------------- sample_verification.extract_valid_samples
\* An array is the sequence of its cells in C order, the order in which
\* boolean-mask indexing visits them; its shape is its length.
RoiValues == {0 - 1, 0, 1, 2}
ClassValues == {0, 1}
RoiMasks == UNION {[1..n -> RoiValues] : n \in 0..MaxCells}
ClassMaps == UNION {[1..n -> ClassValues] : n \in 0..MaxCells}

RaiseIndexError(text) == [kind |-> "raise", error |-> text]
ReturnTriple(yt, yp, mask) == [kind |-> "return", y_true |-> yt, y_pred |-> yp, mask |-> mask]

\* A variant of the mask that also keeps the cells whose ROI value is 0.
NonNegativeCells(roi_mask) == [i \in 1..Len(roi_mask) |-> roi_mask[i] >= 0]

\* mask = roi_mask > 0
PositiveCells(roi_mask) == [i \in 1..Len(roi_mask) |-> roi_mask[i] > 0]

\* arr[mask] for a boolean mask of arr's shape: the cells where mask holds
MaskIndices(mask) == SelectSeq([i \in 1..Len(mask) |-> i], LAMBDA i : mask[i])
BooleanIndex(arr, mask) == [k \in 1..Len(MaskIndices(mask)) |-> arr[MaskIndices(mask)[k]]]

\* extract_valid_samples(class_map, roi_mask); indexing class_map with a mask
\* of another shape raises IndexError
extract_valid_samples(class_map, roi_mask) ==
    LET mask == PositiveCells(roi_mask)
    IN  IF Len(class_map) # Len(mask)
        THEN RaiseIndexError("boolean index did not match indexed array")
        ELSE ReturnTriple(BooleanIndex(roi_mask, mask), BooleanIndex(class_map, mask), mask)

\* one call of extract_valid_samples
CallExtractSamples ==
    /\ call.fn = "extract_valid_samples"
    /\ call.result = NotCalled
    /\ call' = [call EXCEPT !.result = extract_valid_samples(call.class_map,
                                                             call.roi_mask)]
    /\ UNCHANGED <<workerVars, guiVars, fileVars, configVars, historyVars, taskVars>>

\* ------------------- run_feature_extraction.auto_map_bands_from_descriptions
\* A string is the sequence of its characters, so that `in` and lower() are
\* computed; None and '' are both the empty sequence (both are falsy).
UpperCase == <<"A", "B", "C", "D", "E", "F", "G", "H", "I", "J", "K", "L", "M", "N", "O", "P", "Q", "R", "S", "T", "U", "V", "W", "X", "Y", "Z">>
LowerCase == <<"a", "b", "c", "d", "e", "f", "g", "h", "i", "j", "k", "l", "m", "n", "o", "p", "q", "r", "s", "t", "u", "v", "w", "x", "y", "z">>

\* str.lower()
LowerChar(c) ==
    IF \E i \in 1..Len(UpperCase) : UpperCase[i] = c
    THEN LowerCase[CHOOSE i \in 1..Len(UpperCase) : UpperCase[i] = c]
    ELSE c
LowerString(str) == [i \in 1..Len(str) |-> LowerChar(str[i])]

\* `sub in str`
Contains(str, sub) ==
    \E i \in 1..(Len(str) - Len(sub) + 1) : SubSeq(str, i, i + Len(sub) - 1) = sub

Blue == <<"b", "l", "u", "e">>
Green == <<"g", "r", "e", "e", "n">>
Red == <<"r", "e", "d">>
Nir == <<"n", "i", "r">>
NearInfrared == <<"n", "e", "a", "r", " ", "i", "n", "f", "r", "a", "r", "e", "d">>
Swir == <<"s", "w", "i", "r">>
Shortwave == <<"s", "h", "o", "r", "t", "w", "a", "v", "e">>

\* the band descriptions a raster may carry
Descriptions ==
    { <<>>, <<"B", "l", "u", "e">>, <<"G", "R", "E", "E", "N">>, <<"R", "e", "d", " ", "b", "a", "n", "d">>, <<"N", "I", "R">>, <<"N", "e", "a", "r", " ", "I", "n", "f", "r", "a", "r", "e", "d">>, <<"S", "W", "I", "R", " ", "1">>,
      <<"t", "h", "e", "r", "m", "a", "l">> }
DescriptionLists == UNION {[1..n -> Descriptions] : n \in 0..MaxBands}

\* a band name: one of the five recognised names, 'band_<k>', or None
BandName(n) == [band |-> n, index |-> 0]
GenericBand(k) == [band |-> "band_", index |-> k]
NoBandName == [band |-> "None", index |-> 0]

\* the body of the loop: the name appended for one description
RecognisedName(desc) ==
    IF desc = <<>> THEN NoBandName
    ELSE LET low == LowerString(desc) IN
         IF Contains(low, Blue) THEN BandName("blue")
         ELSE IF Contains(low, Green) THEN BandName("green")
         ELSE IF Contains(low, Red) THEN BandName("red")
         ELSE IF Contains(low, Nir) \/ Contains(low, NearInfrared) THEN BandName("nir")
         ELSE IF Contains(low, Swir) \/ Contains(low, Shortwave) THEN BandName("swir")
         ELSE NoBandName

\* A variant that is content with two recognised descriptions.
TwoRecognised(names) == Len(SelectSeq(names, LAMBDA n : n # NoBandName)) >= 2

\* sum(n is not None for n in names) >= 3
EnoughRecognised(names) == Len(SelectSeq(names, LAMBDA n : n # NoBandName)) >= 3

\* auto_map_bands_from_descriptions(descriptions, count); position i of the
\* code (from 0) is position i + 1 here
auto_map_bands_from_descriptions(descriptions, count) ==
    LET names == [i \in 1..Len(descriptions) |-> RecognisedName(descriptions[i])]
    IN  IF EnoughRecognised(names)
        THEN [i \in 1..Len(names) |->
                IF names[i] # NoBandName THEN names[i] ELSE GenericBand(i)]
        ELSE <<>>

\* one call of auto_map_bands_from_descriptions
CallAutoMapBands ==
    /\ call.fn = "auto_map_bands_from_descriptions"
    /\ call.result = NotCalled
    /\ call' = [call EXCEPT !.result =
                  [kind |-> "return",
                   names |-> auto_map_bands_from_descriptions(call.descriptions,
                                                              call.count)]]
    /\ UNCHANGED <<workerVars, guiVars, fileVars, configVars, historyVars, taskVars>>

\* ------------------------------ sample_generator.random_sample_points
\* A class map of shape (H, W): its cells in C order, counted from 0.
MapShapes == {hw \in (1..MaxMapCells) \X (1..MaxMapCells) : hw[1] * hw[2] <= MaxMapCells}
SampleMaps ==
    UNION {[H : {hw[1]}, W : {hw[2]}, cells : [0..(hw[1] * hw[2] - 1) -> ClassValues]] :
             hw \in MapShapes}
\* num_samples: none, fewer than the map's cells, as many, more
SampleCounts == 0..(MaxMapCells + 1)

Min(a, b) == IF a <= b THEN a ELSE b

\* A variant that draws with replacement.
ChoiceWithReplacement(total, size) == [1..size -> 0..(total - 1)]

\* np.random.choice(total, size, replace=False) after np.random.seed: size
\* different numbers below total, in an order the generator fixes; any such
\* draw is allowed for.
Choice(total, size) ==
    {idx \in [1..size -> 0..(total - 1)] :
        \A i, j \in 1..size : idx[i] = idx[j] => i = j}

\* np.unravel_index(index, (H, W)), C order
unravel_index(index, H, W) == [row |-> index \div W, col |-> index % W]

\* class_map[row, col]
MapValue(class_map, row, col) == class_map.cells[row * class_map.W + col]

\* the DataFrame built from one draw: one row per drawn index
SamplesFrame(class_map, indices) ==
    [i \in 1..Len(indices) |->
        LET cell == unravel_index(indices[i], class_map.H, class_map.W)
        IN  [OBJECTID |-> i, row |-> cell.row, col |-> cell.col,
             RASTERVALU |-> MapValue(class_map, cell.row, cell.col),
             CLASSIFIED |-> 0 - 1]]

\* random_sample_points(class_map, num_samples): the frames it may return
random_sample_points(class_map, num_samples) ==
    LET total == class_map.H * class_map.W
    IN  {SamplesFrame(class_map, indices) :
            indices \in Choice(total, Min(num_samples, total))}

\* one call of random_sample_points
CallRandomSamplePoints ==
    /\ call.fn = "random_sample_points"
    /\ call.result = NotCalled
    /\ \E df \in random_sample_points(call.class_map, call.num_samples) :
          call' = [call EXCEPT !.result = [kind |-> "return", samples_df |-> df]]
    /\ UNCHANGED <<workerVars, guiVars, fileVars, configVars, historyVars, taskVars>>

\* one call of load_samples_from_file on a table read from file_path
CallLoadSamples ==
    /\ call.fn = "load_samples_from_file"
    /\ call.result = NotCalled
    /\ call' = [call EXCEPT !.result = load_samples_from_file(call.ext, call.cols,
                                                              call.rows)]
    /\ UNCHANGED <<workerVars, guiVars, fileVars, configVars, historyVars, taskVars>>

\* ------------------------------------------------------- specifications
\* A menu handler that dispatches and touches none of the file lists.
Menu(dispatch) == dispatch /\ UNCHANGED fileVars

\* The GUI thread and its worker threads: dispatches of two families,
\* cancellation, completion and the delivery of the finished signal.
Next ==
    \/ Menu(run_file_operation(NoOverride))
    \/ Menu(run_image_processing(NoOverride))
    \/ cancel_current_worker
    \/ \E w \in Workers, res \in WorkerResults : WorkerFinished(w, res)
    \/ \E w \in Workers : ThreadEnd(w)
    \/ DeliverClear
    \/ DeliverResult

Spec == Init /\ [][Next]_vars

\* The same with workers that report progress.
NextProgress ==
    \/ Menu(run_classification(NoOverride))
    \/ cancel_current_worker
    \/ \E w \in Workers : WorkerProgress(w)
    \/ \E w \in Workers, res \in WorkerResults : WorkerFinished(w, res)
    \/ \E w \in Workers : ThreadEnd(w)
    \/ DeliverProgress
    \/ DeliverClear
    \/ DeliverResult

SpecProgress == Init /\ [][NextProgress]_vars

\* Parameter resolution: dispatches of one family with every override, while
\* the caller rebinds and mutates that family's Config defaults.
InFlightFamilies == {f \in Families : \E w \in Workers : wtitle[w] = Title(f)}

FocusFamilies ==
    IF \E w \in Workers : Started(w) THEN InFlightFamilies ELSE Families

RebindValues == {Scalar("dir2")}

NextParams ==
    \/ \E o \in Overrides : "file_operation" \in FocusFamilies /\ Menu(run_file_operation(o))
    \/ \E o \in Overrides : "image_processing" \in FocusFamilies /\ Menu(run_image_processing(o))
    \/ \E o \in Overrides : "file_saver" \in FocusFamilies /\ Menu(run_file_save(o))
    \/ \E o \in Overrides : "vector_processing" \in FocusFamilies /\ Menu(run_vector_processing(o))
    \/ \E o \in Overrides : "classification" \in FocusFamilies /\ Menu(run_classification(o))
    \/ \E o \in Overrides : "feature_extraction" \in FocusFamilies /\ Menu(run_feature_extraction(o))
    \/ \E o \in Overrides : "evaluation" \in FocusFamilies /\ Menu(run_evaluation(o))
    \/ \E f \in InFlightFamilies, k \in AllKeys, val \in RebindValues : ConfigRebind(f, k, val)
    \/ \E f \in InFlightFamilies : ConfigAppend(f)
    \/ \E f \in InFlightFamilies : ConfigSetItem(f)

SpecParams == Init /\ [][NextParams]_vars

\* The file lists: images are opened and loaded, processed, removed from the
\* side list and cleared, while results arrive.
NextFiles ==
    \/ \E sel \in Selections : _open_image(sel)
    \/ \E p \in Processings : _run_processing(p.methods, p.options)
    \/ \E sel \in ItemSelections : _show_side_list_menu("remove", sel)
    \/ _show_side_list_menu("clear", <<>>)
    \/ \E w \in Workers : \E res \in ResultsOf(w) : WorkerFinished(w, res)
    \/ DeliverClear
    \/ DeliverResult

SpecFiles == Init /\ [][NextFiles]_vars

\* one execution of one task function, from its first statement to its return
TaskInputs ==
    /\ task \in {"evaluation", "samples", "features"}
    /\ pc = "makedirs"
    /\ formats \in (IF task = "samples" THEN SUBSET Formats ELSE {{}})
    /\ bands \in (IF task = "features" THEN BandSets ELSE {{}})
    /\ features \in (IF task = "features" THEN FeatureDicts ELSE {<<>>})
    /\ files = {}
    /\ logs = <<>>
    /\ outputs = <<>>
    /\ shapes2d = <<>>
    /\ tresult = NoTaskResult
    /\ trail = <<>>

InitTasks == InitGui /\ TaskInputs /\ call = NoCall

NextTasks ==
    \/ EvalMakeDirs
    \/ EvalLoadClassMap
    \/ EvalLoadRoi
    \/ EvalExtractSamples
    \/ EvalConfusionMatrix
    \/ EvalOaKappa
    \/ EvalReport
    \/ SamplesMakeDirs
    \/ SamplesEvaluate
    \/ FeatMakeDirs
    \/ FeatLoadBands
    \/ FeatIndices
    \/ FeatTexture
    \/ FeatPca
    \/ FeatMorphology
    \/ FeatSelection
    \/ FeatFusion
    \/ FeatSaveItem
    \/ FeatAggregate

SpecTasks == InitTasks /\ [][NextTasks]_vars

\* one call of load_samples_from_file on an arbitrary small table
InitSamples ==
    /\ InitGui
    /\ TaskIdle
    /\ call \in [fn : {"load_samples_from_file"}, ext : Extensions, cols : ColumnSets,
                 rows : Tables, result : {NotCalled}]

NextSamples == CallLoadSamples

SpecSamples == InitSamples /\ [][NextSamples]_vars

\* one call of extract_valid_samples on arbitrary small arrays
InitExtract ==
    /\ InitGui
    /\ TaskIdle
    /\ call \in [fn : {"extract_valid_samples"}, class_map : ClassMaps,
                 roi_mask : RoiMasks, result : {NotCalled}]

NextExtract == CallExtractSamples

SpecExtract == InitExtract /\ [][NextExtract]_vars

\* one call of auto_map_bands_from_descriptions on the descriptions of a raster
InitBands ==
    /\ InitGui
    /\ TaskIdle
    /\ \E d \in DescriptionLists :
          call = [fn |-> "auto_map_bands_from_descriptions", descriptions |-> d,
                  count |-> Len(d), result |-> NotCalled]

NextBands == CallAutoMapBands

SpecBands == InitBands /\ [][NextBands]_vars

\* one call of random_sample_points on a class map
InitPoints ==
    /\ InitGui
    /\ TaskIdle
    /\ call \in [fn : {"random_sample_points"}, class_map : SampleMaps,
                 num_samples : SampleCounts, result : {NotCalled}]

NextPoints == CallRandomSamplePoints

SpecPoints == InitPoints /\ [][NextPoints]_vars



\* ================================================================ claims
\* Invocations of worker w still waiting in the GUI thread's queue.
Pending(w) == {i \in 1..Len(queue) : queue[i].w = w}
PendingSlot(w, slot) == {i \in Pending(w) : queue[i].slot = slot}

\* Nothing more will happen for worker w: its thread is gone and none of its
\* invocations is queued.
Settled(w) == wstate[w] \in {"ended", "terminated"} /\ Pending(w) = {}

\* The outcome message a result of worker w calls for, with the title of the
\* run_<family> that dispatched it.
ExpectedMessage(w) ==
    IF wresult[w].status = "success"
    THEN DoneMessage(Title(request[w].family))
    ELSE FailedMessage(Title(request[w].family), wresult[w].message)

\* C1: a worker started through _start_worker and never cancelled has its
\* result handled at most once at any time, and exactly once when nothing is
\* left to happen for it; the handled TaskResult is a success or a failure.
C1_ExactlyOneResult ==
    \A w \in Workers :
        (Started(w) /\ ~terminateReq[w]) =>
            /\ Len(outcome[w]) <= 1
            /\ Settled(w) =>
                /\ Len(outcome[w]) = 1
                /\ wresult[w].status \in Statuses
                /\ outcome[w][1].kind = IF wresult[w].status = "success"
                                        THEN "done" ELSE "failed"

C1_Witness ==
    \E w \in Workers :
        /\ Settled(w) /\ ~terminateReq[w]
        /\ Len(outcome[w]) = 1
        /\ wresult[w].status = "failure"

\* C2: cancel on a tracked worker that is running moves it to Terminated, and
\* once terminate() was requested for a worker the caller handles no finished
\* result of it any more.
C2_NoResultAfterCancel ==
    [][ /\ \A w \in Workers :
              (terminateReq'[w] /\ ~terminateReq[w]) => wstate'[w] = "terminated"
        /\ \A w \in Workers : terminateReq[w] => outcome'[w] = outcome[w] ]_vars

\* C3: cancel_current_worker called when the slot is empty, or when the
\* worker it refers to has completed (its thread has ended), changes nothing:
\* no terminate() request, the slot and all other application state as before.
C3_CancelNoOp ==
    [][ (lastCancel' # lastCancel /\ lastCancel' \in {"empty", "ended"}) =>
            UNCHANGED <<workerVars, guiVars, fileVars, configVars, terminateReq>> ]_vars

C3_Witness ==
    /\ lastCancel = "ended"
    /\ current_worker # NoWorker
    /\ wstate[current_worker] = "ended"
    /\ ~terminateReq[current_worker]

\* C4: cancel clears the slot, so the slot never refers to a Terminated worker.
C4_SlotNeverTerminated ==
    current_worker # NoWorker => wstate[current_worker] # "terminated"

\* C7: when worker b is dispatched before the result of an earlier worker a
\* has been handled and neither is cancelled, then once nothing is left to
\* happen for them each one's result has been handled exactly once, with the
\* title it was dispatched with.
C7_OverlappingDispatches ==
    \A a, b \in Workers :
        ( /\ a \in request[b].unhandled
          /\ ~terminateReq[a] /\ ~terminateReq[b]
          /\ Settled(a) /\ Settled(b) ) =>
            /\ outcome[a] = <<ExpectedMessage(a)>>
            /\ outcome[b] = <<ExpectedMessage(b)>>

\* b was dispatched while a was unhandled, with another title, and b's result
\* was handled first.
C7_Witness ==
    \E a, b \in Workers :
        /\ a \in request[b].unhandled
        /\ request[a].family # request[b].family
        /\ outcome[b] = <<ExpectedMessage(b)>>
        /\ outcome[a] = <<>>
        /\ wstate[a] = "running"

\* C8 as stated: every dispatch, a cancelled one included, has led to exactly
\* one outcome message once nothing is left to happen for its worker.
C8_EveryDispatchOneOutcome ==
    \A w \in Workers : (Started(w) /\ Settled(w)) => Len(outcome[w]) = 1

\* C8 as amended: a dispatch leads to at most one outcome message; once
\* nothing is left to happen for its worker there is exactly one if the
\* worker emitted finished, and none if it was terminated before emitting.
C8_OneOutcomeUnlessTerminatedFirst ==
    \A w \in Workers :
        Started(w) =>
            /\ Len(outcome[w]) <= 1
            /\ Settled(w) =>
                Len(outcome[w]) = IF wresult[w] # NoResult THEN 1 ELSE 0

C8_Witness ==
    \E w \in Workers :
        /\ Settled(w)
        /\ wstate[w] = "terminated"
        /\ wresult[w] = NoResult
        /\ outcome[w] = <<>>

C5_ShallowMerge ==
    \A w \in Workers :
        Started(w) =>
            \A k \in AllKeys :
                request[w].params[k] =
                    IF request[w].override[k] # DeepAbsent
                    THEN request[w].override[k]
                    ELSE request[w].defaults[k]

\* a nested mapping present in the defaults and in the overrides
C5_Witness ==
    \E w \in Workers :
        /\ Started(w)
        /\ request[w].override["options"].obj.kind = "dict"
        /\ request[w].defaults["options"].obj.kind = "dict"
        /\ request[w].override["options"] # request[w].defaults["options"]
        /\ request[w].params["bands"] = request[w].defaults["bands"]

\* C6: what an in-flight worker reads from its parameters is what they held
\* at dispatch, whatever the caller did to Config since.
C6_ParamsAreSnapshot ==
    \A w \in Workers :
        isRunning(w) => Deep(wparams[w], heap) = request[w].params

\* C10: every TaskResult with status success returned by the evaluation run,
\* by run_from_samples_file (whatever its formats argument) and by the
\* feature extraction run lists in outputs only paths that were written.
C10_SuccessOutputsWritten ==
    tresult.status = "success" =>
        \A i \in 1..Len(tresult.outputs) : tresult.outputs[i] \in files

\* --------------------------------------------------- claims about the tasks
\* the stages of run_evaluation.run in the order the code executes them
EvalStages ==
    <<"makedirs", "load_class_map", "load_roi", "extract_samples",
      "confusion_matrix", "oa_kappa", "report">>
SomeRaised == \E i \in 1..Len(trail) : trail[i].raised
\* the stages that completed, in execution order
Completed == SelectSeq(trail, LAMBDA t : ~t.raised)
CompletedStages == {Completed[i].stage : i \in 1..Len(Completed)}

\* C11: every TaskResult with status failure returned by the evaluation run,
\* run_from_samples_file and the feature extraction run has a non-empty
\* message, also when the exception's text is empty.
C11_FailureMessageNonEmpty ==
    tresult.status = "failure" => NonEmptyText(tresult.message)

\* C12: no exception escapes a task function, and whichever internal step
\* raised, the call does not return success: its result has status failure.
C12_RaiseGivesFailure ==
    /\ tresult.status \in {"none", "success", "failure"}
    /\ SomeRaised => tresult.status # "success"
    /\ (SomeRaised /\ Returned) => tresult.status = "failure"

\* the artifacts the completed stages of the evaluation run produced
EvalArtifacts ==
    (IF "confusion_matrix" \in CompletedStages
     THEN <<File("confusion_matrix.png")>> ELSE <<>>)
    \o (IF "report" \in CompletedStages
        THEN <<File("evaluation_report.txt")>> ELSE <<>>)

\* C13: the evaluation run executes its stages in the fixed order; the first
\* stage that fails ends the run with status failure and no later stage
\* executes; outputs holds exactly the artifacts of the completed stages;
\* success is returned only when all seven stages completed, with outputs
\* confusion_matrix.png, evaluation_report.txt in that order.
C13_EvalStagesInOrder ==
    task = "evaluation" =>
        /\ Len(trail) <= Len(EvalStages)
        /\ \A i \in 1..Len(trail) : trail[i].stage = EvalStages[i]
        /\ \A i \in 1..(Len(trail) - 1) : ~trail[i].raised
        /\ SomeRaised => (pc = "done" /\ tresult.status = "failure")
        /\ outputs = EvalArtifacts
        /\ Returned => tresult.outputs = EvalArtifacts
        /\ tresult.status = "success" =>
            /\ Len(Completed) = Len(EvalStages)
            /\ tresult.outputs = <<File("confusion_matrix.png"),
                                   File("evaluation_report.txt")>>
        /\ (Len(Completed) = Len(EvalStages)) => tresult.status = "success"

\* the report stage failed after the confusion matrix was saved
C13_Witness ==
    /\ task = "evaluation"
    /\ tresult.status = "failure"
    /\ Len(trail) = 7
    /\ tresult.outputs = <<File("confusion_matrix.png")>>

\* the diagnostic strings a completed stage records
StageLogs(stage) ==
    CASE task = "samples" /\ stage = "makedirs" -> <<Msg("created output dir", "")>>
      [] task = "samples" /\ stage = "evaluate" -> <<Msg("OA", ""), Msg("macro F1", "")>>
      [] task = "evaluation" /\ stage = "makedirs" -> <<Msg("created output dir", "")>>
      [] task = "evaluation" /\ stage = "load_class_map" -> <<Msg("loaded class map", "")>>
      [] task = "evaluation" /\ stage = "load_roi" -> <<Msg("loaded ROI", "")>>
      [] task = "evaluation" /\ stage = "extract_samples" ->
            <<Msg("extracted valid samples", "")>>
      [] task = "evaluation" /\ stage = "confusion_matrix" ->
            <<Msg("saved confusion matrix", "")>>
      [] task = "evaluation" /\ stage = "oa_kappa" -> <<Msg("OA", ""), Msg("Kappa", "")>>
      [] task = "evaluation" /\ stage = "report" -> <<Msg("generated report", "")>>
      [] OTHER -> <<>>
RECURSIVE LogsOf(_)
LogsOf(stages) ==
    IF stages = <<>> THEN <<>>
    ELSE StageLogs(Head(stages).stage) \o LogsOf(Tail(stages))
IsPrefix(a, b) == Len(a) <= Len(b) /\ SubSeq(b, 1, Len(a)) = a

\* C14: the logs of every result of the evaluation run and of
\* run_from_samples_file are the run's diagnostic strings in recording order:
\* the completed stages' entries in stage order; on failure these are kept as
\* a prefix, followed by what the failing stage recorded before it raised,
\* and the last entry is the failure message, equal to the result's message.
C14_LogsChronological ==
    (task \in {"evaluation", "samples"} /\ Returned) =>
        LET lg == tresult.logs
            pre == LogsOf(Completed)
        IN  IF tresult.status = "success"
            THEN lg = pre
            ELSE /\ Len(lg) > Len(pre)
                 /\ IsPrefix(pre, lg)
                 /\ lg[Len(lg)] = tresult.message
                 /\ IsPrefix(SubSeq(lg, Len(pre) + 1, Len(lg) - 1),
                             StageLogs(trail[Len(trail)].stage))

\* OA/Kappa failed after its first line was recorded
C14_Witness ==
    /\ task = "evaluation"
    /\ tresult.status = "failure"
    /\ Len(tresult.logs) = 7
    /\ tresult.logs[6] = Msg("OA", "")
    /\ tresult.logs[7] = tresult.message

\* C15: the feature extraction run is atomic: once a stage has failed no
\* further stage executes and the result has status failure; success is
\* returned only when no stage failed.
C15_FeatureRunAtomic ==
    task = "features" =>
        /\ \A i \in 1..(Len(trail) - 1) : ~trail[i].raised
        /\ tresult.status = "success" => ~SomeRaised

\* the label columns load_samples_from_file reads from a table
TrueColumn(cols) == IF "true_label" \in cols THEN "true_label" ELSE "CLASSIFIED"
PredColumn(cols) == IF "predicted_label" \in cols THEN "predicted_label" ELSE "RASTERVALU"

\* C16: what load_samples_from_file returns is exactly the rows of the table
\* whose true label (true_label, or CLASSIFIED when true_label is absent) is
\* not -1, in table order: y_true and y_pred have equal length and pair up
\* row by row with the predicted label (predicted_label, or RASTERVALU when
\* absent), and y_true never contains -1.
C16_LabelledRowsInOrder ==
    (call.fn = "load_samples_from_file" /\ call.result.kind = "return") =>
        LET tc == TrueColumn(call.cols)
            pc2 == PredColumn(call.cols)
            kept == SelectSeq(call.rows, LAMBDA r : r[tc] # Unlabelled)
            yt == call.result.y_true
            yp == call.result.y_pred
        IN  /\ Len(yt) = Len(yp)
            /\ Len(yt) = Len(kept)
            /\ \A i \in 1..Len(kept) : yt[i] = kept[i][tc] /\ yp[i] = kept[i][pc2]
            /\ \A i \in 1..Len(yt) : yt[i] # Unlabelled

\* an unlabelled row was dropped from a table with CLASSIFIED / RASTERVALU
\* columns, and a kept row has predicted label -1
C16_Witness ==
    /\ call.fn = "load_samples_from_file"
    /\ call.result.kind = "return"
    /\ call.cols = {"CLASSIFIED", "RASTERVALU"}
    /\ Len(call.result.y_true) < Len(call.rows)
    /\ \E i \in 1..Len(call.result.y_pred) : call.result.y_pred[i] = Unlabelled

\* ------------------------------------------- claims about the worker slot
\* C17: each worker is used for one run: a dispatch constructs a fresh worker
\* and starts it once, and a worker that has been started never goes back to
\* Running from Completed or Terminated.
C17_WorkerSingleUse ==
    [][ \A w \in Workers :
          /\ (wstate'[w] = "running" /\ wstate[w] # "running") => wstate[w] = "none"
          /\ (current_worker' = w /\ current_worker # w) =>
                (wstate[w] = "none" /\ wstate'[w] = "running") ]_vars

\* a second worker runs after the first one was terminated
C17_Witness ==
    \E a, b \in Workers :
        /\ wstate[a] = "terminated"
        /\ wstate[b] = "running"
        /\ current_worker = b

\* C18: every worker that is running (started, neither completed nor
\* terminated) is the worker the active-worker slot refers to.
C18_NoUntrackedRunning ==
    \A w \in Workers : wstate[w] = "running" => current_worker = w

\* C19: right after a dispatch the slot refers to the worker just created,
\* whatever it held before, and every other worker is as it was: none is
\* terminated or stopped by the dispatch.
C19_DispatchReplacesSlot ==
    [][ \A w \in Workers :
          (wstate[w] = "none" /\ wstate'[w] = "running") =>
              /\ current_worker' = w
              /\ \A v \in Workers \ {w} :
                    wstate'[v] = wstate[v] /\ terminateReq'[v] = terminateReq[v] ]_vars

\* b was dispatched while a was tracked and running; both run, the slot holds b
C19_Witness ==
    \E a, b \in Workers :
        /\ a \in request[b].unhandled
        /\ wstate[a] = "running"
        /\ wstate[b] = "running"
        /\ current_worker = b

\* C20: when a worker's finished event is handled, _clear_current_worker has
\* run before the result handler runs, and the handler's step leaves the slot
\* as it finds it: no clear of the same event is left to overwrite a worker
\* started during or after the result handling.
C20_ClearBeforeHandle ==
    [][ \A w \in Workers :
          outcome'[w] # outcome[w] =>
              /\ PendingSlot(w, "_clear_current_worker") = {}
              /\ current_worker' = current_worker ]_vars

\* a worker dispatched after a's result was handled is held in the slot once
\* nothing of a's finished event is left
C20_Witness ==
    \E a, b \in Workers :
        /\ Len(outcome[a]) = 1
        /\ Pending(a) = {}
        /\ a \notin request[b].unhandled
        /\ wstate[b] = "running"
        /\ current_worker = b

\* ---------------------------------------------------------- the file lists
\* the step handles worker w's result / starts worker w
Handles(w) == outcome'[w] # outcome[w]
Starts(w) == wstate[w] = "none" /\ wstate'[w] = "running"

Elements(seq) == {seq[i] : i \in 1..Len(seq)}

\* every two entries of old occur in new, in the order they have in old
KeepsOrder(old, new) ==
    /\ Elements(old) \subseteq Elements(new)
    /\ \A i, j \in 1..Len(old) :
          i < j => \E k, l \in 1..Len(new) : k < l /\ new[k] = old[i] /\ new[l] = old[j]

\* C21: handling a success result of a file load puts every output into
\* current_numpy_files and keeps the entries already there in their order;
\* handling a success result of another family leaves current_numpy_files as
\* it is; an image-processing dispatch passes current_numpy_files as 'paths'.
C21_LoadedArraysChained ==
    [][ \A w \in Workers :
          /\ (Handles(w) /\ wresult[w].status = "success") =>
                IF wtitle[w] = Title("file_operation")
                THEN /\ Elements(wresult[w].outputs) \subseteq Elements(current_numpy_files')
                     /\ KeepsOrder(current_numpy_files, current_numpy_files')
                ELSE current_numpy_files' = current_numpy_files
          /\ (Starts(w) /\ wtitle'[w] = Title("image_processing")) =>
                /\ wargs'[w].paths = "current_numpy_files"
                /\ PathsOf(w)' = current_numpy_files' ]_vars

\* a load of two images was handled and an image-processing worker dispatched
\* afterwards reads both arrays as 'paths'
C21_Witness ==
    \E a, c \in Workers :
        /\ wtitle[a] = Title("file_operation")
        /\ wresult[a].status = "success"
        /\ outcome[a] # <<>>
        /\ Cardinality(Elements(wresult[a].outputs)) >= 2
        /\ wtitle[c] = Title("image_processing")
        /\ Started(c)
        /\ request[c].unhandled = {}
        /\ PathsOf(c) = current_numpy_files
        /\ Elements(wresult[a].outputs) \subseteq Elements(PathsOf(c))

\* ------------------------------------------- feature aggregation (tasks)
\* the individual feature files of the run, in saving order, and the shapes
\* of the 2-D ones among them
FeatureFiles == [i \in 1..Len(SaveItems(features)) |-> SaveItems(features)[i].path]
Saved2D == SelectSeq(SaveItems(features), LAMBDA it : it.ndim = 2)
AggregateFiles == <<File("feature_all.npy"), File("feature_info.json")>>
ShapeWarning == Msg("warning: shapes differ, aggregation skipped", "")

\* C22: a successful feature extraction run writes feature_all.npy and
\* feature_info.json and lists them after all individual feature files
\* exactly when some saved feature is 2-D and all 2-D ones have one shape;
\* otherwise neither file is written or listed, and when the shapes differ a
\* warning is logged and the status is still success.
C22_AggregateWhenShapesAgree ==
    (task = "features" /\ tresult.status = "success") =>
        LET agree == \A i, j \in 1..Len(Saved2D) : Saved2D[i].shape = Saved2D[j].shape
            logged == \E i \in 1..Len(tresult.logs) : tresult.logs[i] = ShapeWarning
        IN  IF Saved2D # <<>> /\ agree
            THEN /\ tresult.outputs = FeatureFiles \o AggregateFiles
                 /\ Elements(AggregateFiles) \subseteq files
                 /\ ~logged
            ELSE /\ tresult.outputs = FeatureFiles
                 /\ Elements(AggregateFiles) \cap files = {}
                 /\ logged <=> Saved2D # <<>>

\* a successful run that saved 2-D features of two shapes
C22_Witness ==
    /\ task = "features"
    /\ tresult.status = "success"
    /\ \E i, j \in 1..Len(Saved2D) : Saved2D[i].shape # Saved2D[j].shape
    /\ \E i \in 1..Len(tresult.logs) : tresult.logs[i] = ShapeWarning
    /\ tresult.outputs = FeatureFiles

\* ------------------------------------------ claims about the pure functions
\* C23: what extract_valid_samples returns pairs, cell by cell and in cell
\* order, the ROI value and the class-map value of exactly the cells whose
\* ROI value is > 0: y_true and y_pred have the length of that set of cells,
\* and every y_true entry is > 0.
C23_PairsOfPositiveCells ==
    (call.fn = "extract_valid_samples" /\ call.result.kind = "return") =>
        LET roi == call.roi_mask
            positive == {i \in 1..Len(roi) : roi[i] > 0}
            yt == call.result.y_true
            yp == call.result.y_pred
        IN  /\ Len(yt) = Len(yp)
            /\ Len(yt) = Cardinality(positive)
            /\ \E cell \in [1..Len(yt) -> positive] :
                  /\ \A k, l \in 1..Len(yt) : k < l => cell[k] < cell[l]
                  /\ \A k \in 1..Len(yt) :
                        yt[k] = roi[cell[k]] /\ yp[k] = call.class_map[cell[k]]
            /\ \A k \in 1..Len(yt) : yt[k] > 0

\* a mask with a cell at 0 or below and a cell above 0: one pair is returned
C23_Witness ==
    /\ call.fn = "extract_valid_samples"
    /\ call.result.kind = "return"
    /\ \E i \in 1..Len(call.roi_mask) : call.roi_mask[i] = 0
    /\ Len(call.result.y_true) = 1
    /\ call.result.y_true[1] = 2
    /\ call.result.y_pred[1] = 1

\* C24: load_samples_from_file raises ValueError and returns no samples when
\* the file extension is none of csv, xls, xlsx (in any letter case), when
\* the table has neither true_label nor CLASSIFIED or neither predicted_label
\* nor RASTERVALU, and when every row's true label is -1.
C24_ValueErrorCases ==
    (call.fn = "load_samples_from_file" /\ call.result # NotCalled) =>
        LET badExtension == call.ext \notin {".csv", ".CSV", ".xls", ".xlsx"}
            noTrue == {"true_label", "CLASSIFIED"} \cap call.cols = {}
            noPred == {"predicted_label", "RASTERVALU"} \cap call.cols = {}
            noneLabelled ==
                \A i \in 1..Len(call.rows) : call.rows[i][TrueColumn(call.cols)] = Unlabelled
        IN  (badExtension \/ noTrue \/ noPred \/ noneLabelled) =>
                /\ call.result.kind = "raise"
                /\ call.result \in {RaiseValueError("unsupported file format"),
                                    RaiseValueError("label columns missing"),
                                    RaiseValueError("no labelled row")}

\* a csv table with both label columns whose rows are all unlabelled
C24_Witness ==
    /\ call.fn = "load_samples_from_file"
    /\ call.ext = ".csv"
    /\ call.cols = {"CLASSIFIED", "RASTERVALU"}
    /\ Len(call.rows) = 2
    /\ call.result = RaiseValueError("no labelled row")

C26_NoProcessingBeforeLoad ==
    /\ [][ /\ current_numpy_files = <<>> =>
                \A w \in Workers :
                    Starts(w) => wtitle'[w] # Title("image_processing")
           /\ (statusMsg' = LoadFirstMessage /\ statusMsg # LoadFirstMessage) =>
                /\ current_numpy_files = <<>>
                /\ UNCHANGED <<workerVars, current_worker, queue, dialogText,
                               dialogVisible, fileVars, configVars, historyVars>> ]_vars
    /\ [](\A w \in Workers :
            (Started(w) /\ wtitle[w] = Title("image_processing")) =>
                \E a \in Workers :
                    /\ wtitle[a] = Title("file_operation")
                    /\ outcome[a] # <<>>
                    /\ wresult[a].status = "success"
                    /\ wresult[a].outputs # <<>>)

\* an image is open, its load is still running, and a processing dialog was
\* answered with the message only
C26_Witness ==
    /\ current_numpy_files = <<>>
    /\ current_image_files # <<>>
    /\ statusMsg = LoadFirstMessage
    /\ current_worker # NoWorker
    /\ wtitle[current_worker] = Title("file_operation")
    /\ \A w \in Workers : Started(w) => wtitle[w] = Title("file_operation")

\* C27: in every reachable state neither current_image_files nor
\* current_numpy_files holds a path twice.
C27_NoDuplicatePaths ==
    /\ Distinct(current_image_files)
    /\ Distinct(current_numpy_files)

\* a load result that names one array twice was handled while both images
\* are open, and its arrays are in current_numpy_files
C27_Witness ==
    /\ Len(current_image_files) = 2
    /\ \E w \in Workers :
          /\ wtitle[w] = Title("file_operation")
          /\ outcome[w] # <<>>
          /\ wresult[w].status = "success"
          /\ ~Distinct(wresult[w].outputs)
          /\ Elements(wresult[w].outputs) \subseteq Elements(current_numpy_files)

\* C28: handling a result whose status is not success leaves
\* current_image_files, current_numpy_files, file_status and file_visibility
\* (and the side list) as they are; the progress dialog is hidden and the
\* status bar shows "<title>失败: <message>".
C28_FailureLeavesFilesAlone ==
    [][ \A w \in Workers :
          (Handles(w) /\ wresult[w].status # "success") =>
              /\ UNCHANGED <<current_image_files, current_numpy_files, file_status,
                             file_visibility, sideList>>
              /\ dialogVisible' = FALSE
              /\ statusMsg' = FailedMessage(wtitle[w], wresult[w].message) ]_vars

\* a failed image-processing result was handled after an image was loaded:
\* the image still counts as loaded, not as processed
C28_Witness ==
    \E w \in Workers :
        /\ wtitle[w] = Title("image_processing")
        /\ outcome[w] # <<>>
        /\ wresult[w].status # "success"
        /\ statusMsg = FailedMessage(wtitle[w], wresult[w].message)
        /\ ~dialogVisible
        /\ current_numpy_files # <<>>
        /\ \E n \in ImageNames : file_status[n] = "loaded"

\* C29: current_numpy_files is index-aligned with current_image_files: entry
\* i of current_numpy_files is the array loaded from entry i of
\* current_image_files.
C29_ArraysAlignedWithImages ==
    \A i \in 1..Len(current_numpy_files) :
        /\ i <= Len(current_image_files)
        /\ current_numpy_files[i] = Npy(current_image_files[i])

\* C30: a file's status is "loaded" only if a file load whose input_paths
\* included that file was handled with status success.
C30_LoadedOnlyByOwnLoad ==
    \A n \in ImageNames :
        file_status[n] = "loaded" =>
            \E w \in Workers :
                /\ wtitle[w] = Title("file_operation")
                /\ outcome[w] # <<>>
                /\ wresult[w].status = "success"
                /\ \E i \in 1..Len(wargs[w].input_paths) :
                      basename(wargs[w].input_paths[i]) = n

\* C31: while an image-processing worker is in flight, the list its 'paths'
\* parameter holds does not change, whatever the caller does to
\* current_numpy_files.
C31_PathsFixedAtDispatch ==
    [][ \A w \in Workers :
          (wtitle[w] = Title("image_processing") /\ isRunning(w)) =>
              PathsOf(w)' = PathsOf(w) ]_vars

\* C32: in a returned mapping every description that contains 'nir' or
\* 'near infrared' (whatever its case) is named 'nir', and every description
\* that contains 'swir' or 'shortwave' is named 'swir'.
C32_InfraredNamedByKeyword ==
    (/\ call.fn = "auto_map_bands_from_descriptions"
     /\ call.result # NotCalled
     /\ call.result.names # <<>>) =>
        \A i \in 1..Len(call.descriptions) :
            LET low == LowerString(call.descriptions[i]) IN
            /\ (Contains(low, Nir) \/ Contains(low, NearInfrared)) =>
                  call.result.names[i] = BandName("nir")
            /\ (Contains(low, Swir) \/ Contains(low, Shortwave)) =>
                  call.result.names[i] = BandName("swir")

\* C33: random_sample_points(class_map, n) returns min(n, H*W) rows, at
\* pairwise different cells inside the map, with OBJECTID 1..k, RASTERVALU the
\* map's value at the row's cell, and CLASSIFIED -1 in every row.
C33_DistinctCellsOfTheMap ==
    (call.fn = "random_sample_points" /\ call.result # NotCalled) =>
        LET df == call.result.samples_df
            H == call.class_map.H
            W == call.class_map.W
        IN  /\ Len(df) = IF call.num_samples <= H * W THEN call.num_samples ELSE H * W
            /\ \A i \in 1..Len(df) :
                  /\ df[i].OBJECTID = i
                  /\ df[i].row \in 0..(H - 1)
                  /\ df[i].col \in 0..(W - 1)
                  /\ df[i].RASTERVALU = call.class_map.cells[df[i].row * W + df[i].col]
                  /\ df[i].CLASSIFIED = 0 - 1
            /\ \A i, j \in 1..Len(df) :
                  (df[i].row = df[j].row /\ df[i].col = df[j].col) => i = j

\* more samples asked for than a 2 x 2 map has cells: all four cells are
\* returned, the first of them not the map's first cell, with both classes
C33_Witness ==
    /\ call.fn = "random_sample_points"
    /\ call.result # NotCalled
    /\ call.class_map.H = 2
    /\ call.class_map.W = 2
    /\ call.num_samples > 4
    /\ Len(call.result.samples_df) = 4
    /\ call.result.samples_df[1].row = 1
    /\ call.result.samples_df[1].RASTERVALU # call.result.samples_df[2].RASTERVALU


====
